---------------------------- MODULE Spec2Model ----------------------------
(***************************************************************************)
(* Model of the sales-report parser and analytics pipeline of              *)
(* data_refinement.py (class DataRefinement and main).                     *)
(*                                                                         *)
(* Text.  A Python str is modelled as a sequence of tokens.  A token is    *)
(* either one character ("$", ",", ".", " ", "\"", "(", ")", "-", "/",     *)
(* "'", "%", "&", "\n", a digit) or one whole word made of letters         *)
(* ("Gross", "Pizza", "Aug", ...).  Words are indivisible: every literal   *)
(* of the code is written as the token sequence of its characters, and     *)
(* `x in s`, startswith, endswith, split, strip and the regular            *)
(* expressions work on tokens exactly as the Python operations work on     *)
(* characters.                                                             *)
(*                                                                         *)
(* Numbers.  A float obtained from decimal text is the exact decimal       *)
(* [m |-> mantissa, e |-> number of fractional digits] = m / 10^e, kept    *)
(* normalised (no trailing fractional zero), so that record equality is    *)
(* numeric equality.                                                       *)
(*                                                                         *)
(* Time.  A datetime is a number of ticks, TicksPerDay ticks to the day,   *)
(* counted from the proleptic Gregorian ordinal as datetime.toordinal.     *)
(***************************************************************************)
EXTENDS Integers, Sequences, FiniteSets, TLC

VARIABLES
    pc,                 \* position of main() / of the function under call
    clock,              \* the wall clock read by datetime.now()
    csv_files,          \* glob result still to be visited by load_data_files
    excel_files,        \* likewise for *.xlsx
    file,               \* loop variable `file` of load_data_files
    customers,          \* self.customers
    sales_data,         \* self.sales_data
    inventory_data,     \* self.inventory_data
    business_customers, \* self.business_customers
    processed_data,     \* self.processed_data
    stdout,             \* what print() has written
    saved,              \* content of refined_data.json, NoFile before it exists
    args,               \* arguments of the function under call
    ret                 \* its outcome

vars == <<pc, clock, csv_files, excel_files, file, customers, sales_data, inventory_data,
          business_customers, processed_data, stdout, saved, args, ret>>

-----------------------------------------------------------------------------
(* Bounds of the model *)

MaxTextLen == 4

MaxLines == 4

MaxCsvFiles == 2

MaxExcelFiles == 1

MaxElapsed == 1

-----------------------------------------------------------------------------
(* Sequences and Python str operations on token sequences *)

Range(s) == {s[i] : i \in 1..Len(s)}

Min(S) == CHOOSE x \in S : \A y \in S : x <= y

Max(S) == CHOOSE x \in S : \A y \in S : x >= y

BoundedSeq(S, n) == UNION {[1..k -> S] : k \in 0..n}

Digits == {"0", "1", "2", "3", "4", "5", "6", "7", "8", "9"}

IsDigit(c) == c \in Digits

DigitVal(c) ==
    CASE c = "0" -> 0 [] c = "1" -> 1 [] c = "2" -> 2 [] c = "3" -> 3
      [] c = "4" -> 4 [] c = "5" -> 5 [] c = "6" -> 6 [] c = "7" -> 7
      [] c = "8" -> 8 [] c = "9" -> 9

\* s[i:] restricted to the longest prefix whose tokens all satisfy the
\* class: the index of its last token (i-1 when it is empty).  This is a
\* greedy `[class]*` of the re module started at i.
RECURSIVE RunEnd(_, _, _)
RunEnd(s, i, class) ==
    IF i <= Len(s) /\ s[i] \in class THEN RunEnd(s, i + 1, class) ELSE i - 1

\* `lit in s` at position i
MatchAt(s, i, lit) ==
    /\ i >= 1
    /\ i + Len(lit) - 1 <= Len(s)
    /\ \A k \in 1..Len(lit) : s[i + k - 1] = lit[k]

\* Python `lit in s`
Contains(s, lit) == \E i \in 1..(Len(s) + 1) : MatchAt(s, i, lit)

StartsWith(s, lit) == MatchAt(s, 1, lit)

EndsWith(s, lit) == MatchAt(s, Len(s) - Len(lit) + 1, lit)

\* Python s.strip(chars)
Strip(s, chars) ==
    LET keep == {i \in 1..Len(s) : s[i] \notin chars}
    IN  IF keep = {} THEN <<>> ELSE SubSeq(s, Min(keep), Max(keep))

Whitespace == {" ", "\n"}

-----------------------------------------------------------------------------
(* Decimal numbers *)

Zero == [m |-> 0, e |-> 0]

RECURSIVE Pow10(_)
Pow10(n) == IF n = 0 THEN 1 ELSE 10 * Pow10(n - 1)

RECURSIVE Normalise(_)
Normalise(x) ==
    IF x.e > 0 /\ x.m % 10 = 0
    THEN Normalise([m |-> x.m \div 10, e |-> x.e - 1])
    ELSE x

RECURSIVE DigitsValue(_)
DigitsValue(ds) ==
    IF ds = <<>> THEN 0
    ELSE 10 * DigitsValue(SubSeq(ds, 1, Len(ds) - 1)) + DigitVal(ds[Len(ds)])

\* a > b, a >= b on decimals
NumGT(a, b) == a.m * Pow10(b.e) > b.m * Pow10(a.e)

NumGE(a, b) == a.m * Pow10(b.e) >= b.m * Pow10(a.e)

\* a + b on decimals
NumAdd(a, b) ==
    LET e == IF a.e > b.e THEN a.e ELSE b.e
    IN  Normalise([m |-> a.m * Pow10(e - a.e) + b.m * Pow10(e - b.e), e |-> e])

RECURSIVE NumSum(_)
NumSum(xs) == IF xs = <<>> THEN Zero ELSE NumAdd(xs[1], NumSum(Tail(xs)))

\* The integer nearest to n / d, a tie going to the even one
RoundDiv(n, d) ==
    LET q == n \div d
        r == n % d
    IN  IF 2 * r < d THEN q
        ELSE IF 2 * r > d THEN q + 1
        ELSE IF q % 2 = 0 THEN q ELSE q + 1

\* round(n / d, 2) as a decimal
Round2(n, d) ==
    Normalise([m |-> IF d % 100 = 0 THEN RoundDiv(n, d \div 100) ELSE RoundDiv(n * 100, d),
               e |-> 2])

\* Python float(text) for text of the shape digits* [.] digits*: a
\* ValueError when the text holds no digit at all.
Float(intDigits, fracDigits) ==
    IF intDigits = <<>> /\ fracDigits = <<>>
    THEN [raised |-> TRUE, val |-> Zero]
    ELSE [raised |-> FALSE,
          val |-> Normalise([m |-> DigitsValue(intDigits \o fracDigits),
                             e |-> Len(fracDigits)])]

-----------------------------------------------------------------------------
(* ValueExtractor: _extract_currency                                       *)

\* Where group 1 of  \"?\$([0-9,]+\.?\d*)\"?  starts for re.search: right
\* after the first "$" that is followed by a digit or a comma (0: no match).
\* The optional leading quote only moves the start of the whole match.
CurrencyGroupStart(line) ==
    LET hits == {i \in 1..(Len(line) - 1) :
                    line[i] = "$" /\ line[i + 1] \in (Digits \cup {","})}
    IN  IF hits = {} THEN 0 ELSE Min(hits) + 1

\* _extract_currency(line): [raised, val].  [0-9,]+ is greedy, then an
\* optional ".", then greedy \d*; the commas are removed and float() is
\* applied to what is left.
ExtractCurrency(line) ==
    LET g == CurrencyGroupStart(line)
    IN  IF g = 0 THEN [raised |-> FALSE, val |-> Zero]
        ELSE LET runEnd  == RunEnd(line, g, Digits \cup {","})
                 hasDot  == runEnd + 1 <= Len(line) /\ line[runEnd + 1] = "."
                 fracBeg == IF hasDot THEN runEnd + 2 ELSE runEnd + 1
                 fracEnd == RunEnd(line, fracBeg, Digits)
                 intDigits  == SelectSeq(SubSeq(line, g, runEnd), IsDigit)
                 fracDigits == SubSeq(line, fracBeg, fracEnd)
             IN  Float(intDigits, fracDigits)


-----------------------------------------------------------------------------
(* ValueExtractor: _extract_percentage                                     *)

\* (\d+\.?\d*)%  matches at a digit i when the greedy digit run from i is
\* followed by "%", or by "." and a greedy digit run and then "%".
PercentMatchEnd(line, i) ==
    LET j == RunEnd(line, i, Digits)
        k == RunEnd(line, j + 2, Digits)
    IN  IF j < i THEN 0
        ELSE IF j + 1 <= Len(line) /\ line[j + 1] = "%" THEN j
        ELSE IF /\ j + 1 <= Len(line) /\ line[j + 1] = "."
                /\ k + 1 <= Len(line) /\ line[k + 1] = "%" THEN k
        ELSE 0

\* _extract_percentage(line): the float of the first match, 0.0 without one.
ExtractPercentage(line) ==
    LET hits == {i \in 1..Len(line) : PercentMatchEnd(line, i) > 0}
    IN  IF hits = {} THEN Zero
        ELSE LET i == Min(hits)
                 j == RunEnd(line, i, Digits)
                 k == PercentMatchEnd(line, i)
             IN  Float(SubSeq(line, i, j), SubSeq(line, j + 2, k)).val

-----------------------------------------------------------------------------
(* Dates: datetime, timedelta and strptime                                 *)

TicksPerDay == 2

ThirtyDays == 30 * TicksPerDay

MonthAbbr == <<"jan", "feb", "mar", "apr", "may", "jun",
               "jul", "aug", "sep", "oct", "nov", "dec">>

\* str.lower() of the words the model's texts use
Lower(w) ==
    CASE w \in {"Jan", "JAN"} -> "jan" [] w \in {"Feb", "FEB"} -> "feb"
      [] w \in {"Mar", "MAR"} -> "mar" [] w \in {"Apr", "APR"} -> "apr"
      [] w \in {"May", "MAY"} -> "may" [] w \in {"Jun", "JUN"} -> "jun"
      [] w \in {"Jul", "JUL"} -> "jul" [] w \in {"Aug", "AUG"} -> "aug"
      [] w \in {"Sep", "SEP"} -> "sep" [] w \in {"Oct", "OCT"} -> "oct"
      [] w \in {"Nov", "NOV"} -> "nov" [] w \in {"Dec", "DEC"} -> "dec"
      [] w \in {"Inventory", "INVENTORY"} -> "inventory"
      [] w \in {"Customer_List", "CUSTOMER_LIST"} -> "customer_list"
      [] OTHER -> w

LowerText(s) == [i \in 1..Len(s) |-> Lower(s[i])]

MonthNumber(w) ==
    LET hits == {n \in 1..12 : MonthAbbr[n] = Lower(w)}
    IN  IF hits = {} THEN 0 ELSE CHOOSE n \in hits : TRUE

IsLeap(y) == y % 4 = 0 /\ (y % 100 # 0 \/ y % 400 = 0)

DaysInMonth(y, mo) ==
    IF mo = 2 THEN (IF IsLeap(y) THEN 29 ELSE 28)
    ELSE IF mo \in {4, 6, 9, 11} THEN 30 ELSE 31

RECURSIVE DaysBeforeMonth(_, _)
DaysBeforeMonth(y, mo) ==
    IF mo = 1 THEN 0 ELSE DaysBeforeMonth(y, mo - 1) + DaysInMonth(y, mo - 1)

\* datetime(y, mo, d) at midnight, in ticks
DateTicks(y, mo, d) ==
    LET py == y - 1
    IN  (py * 365 + py \div 4 - py \div 100 + py \div 400
         + DaysBeforeMonth(y, mo) + d) * TicksPerDay

\* the \w of the re module on tokens: a word or a digit
IsWordTok(t) == t \notin {"$", ",", ".", " ", "\"", "(", ")", "-", "/", "'",
                          "%", "&", "\n", ":", "\\"}

\* End of the match of  \w+ \d+, \d+  started at i (0: no match at i).
DateMatchEnd(s, i) ==
    LET W  == {t \in Range(s) : IsWordTok(t)}
        j  == RunEnd(s, i, W)
        d1 == RunEnd(s, j + 2, Digits)
        d2 == RunEnd(s, d1 + 3, Digits)
    IN  IF /\ j >= i
           /\ j + 1 <= Len(s) /\ s[j + 1] = " "
           /\ d1 >= j + 2
           /\ d1 + 2 <= Len(s) /\ s[d1 + 1] = "," /\ s[d1 + 2] = " "
           /\ d2 >= d1 + 3
        THEN d2 ELSE 0

\* re.findall(r'(\w+ \d+, \d+)', s): the non-overlapping matches, left to
\* right, as <<first, last>> index pairs, scanning from position pos.
RECURSIVE FindAllDates(_, _)
FindAllDates(s, pos) ==
    LET hits == {i \in pos..Len(s) : DateMatchEnd(s, i) > 0}
    IN  IF hits = {} THEN <<>>
        ELSE LET i == Min(hits)
             IN  <<<<i, DateMatchEnd(s, i)>>>> \o FindAllDates(s, DateMatchEnd(s, i) + 1)

\* datetime.strptime(tok, '%b %d, %Y') for a token the pattern above
\* matched: [raised, val].  %b is one month abbreviation in any letter
\* case, %d is 1..31 in one or two digits, %Y is exactly four digits, and
\* the date must exist (year >= 1, day within the month).
Strptime(tok) ==
    LET sp    == Min({i \in 1..Len(tok) : tok[i] = " "})
        mon   == SubSeq(tok, 1, sp - 1)
        cm    == Min({i \in 1..Len(tok) : tok[i] = ","})
        dd    == SubSeq(tok, sp + 1, cm - 1)
        yy    == SubSeq(tok, cm + 2, Len(tok))
        mo    == IF Len(mon) = 1 THEN MonthNumber(mon[1]) ELSE 0
        d     == DigitsValue(dd)
        y     == DigitsValue(yy)
        dayOk == \/ Len(dd) = 1 /\ d >= 1
                 \/ Len(dd) = 2 /\ d >= 1 /\ d <= 31
    IN  IF mo # 0 /\ dayOk /\ Len(yy) = 4 /\ y >= 1 /\ d <= DaysInMonth(y, mo)
        THEN [raised |-> FALSE, val |-> DateTicks(y, mo, d)]
        ELSE [raised |-> TRUE, val |-> 0]

\* A date extraction that reads the first date of the range, not the last
ExtractDateFromRangeMutFirst(date_range, now) ==
    LET dates == FindAllDates(date_range, 1)
    IN  IF dates = <<>> THEN now
        ELSE LET first == dates[1]
                 r     == Strptime(SubSeq(date_range, first[1], first[2]))
             IN  IF r.raised THEN now ELSE r.val

\* A date extraction that falls back to datetime.min, not to the clock
ExtractDateFromRangeMutFallbackMin(date_range, now) ==
    LET dates == FindAllDates(date_range, 1)
    IN  IF dates = <<>> THEN 0
        ELSE LET last == dates[Len(dates)]
                 r    == Strptime(SubSeq(date_range, last[1], last[2]))
             IN  IF r.raised THEN 0 ELSE r.val

\* _extract_date_from_range(date_range), with datetime.now() = now
ExtractDateFromRange(date_range, now) ==
    LET dates == FindAllDates(date_range, 1)
    IN  IF dates = <<>> THEN now
        ELSE LET last == dates[Len(dates)]
                 r    == Strptime(SubSeq(date_range, last[1], last[2]))
             IN  IF r.raised THEN now ELSE r.val

-----------------------------------------------------------------------------
(* csv.reader on one line (default dialect: delimiter ",", quotechar "\"", *)
(* doublequote, not strict)                                                *)

\* The reader's state machine from token i on: `state` is START_FIELD,
\* IN_FIELD, IN_QUOTED_FIELD or QUOTE_IN_QUOTED_FIELD, `fld` the field being
\* collected and `flds` the fields saved so far.  At the end of the line the
\* open field is saved, also an unterminated quoted one.
RECURSIVE CsvScan(_, _, _, _, _)
CsvScan(line, i, state, fld, flds) ==
    IF i > Len(line) THEN Append(flds, fld)
    ELSE LET c == line[i]
         IN  CASE state = "START_FIELD" ->
                    IF c = "\"" THEN CsvScan(line, i + 1, "IN_QUOTED_FIELD", fld, flds)
                    ELSE IF c = "," THEN CsvScan(line, i + 1, "START_FIELD", <<>>, Append(flds, fld))
                    ELSE CsvScan(line, i + 1, "IN_FIELD", Append(fld, c), flds)
               [] state = "IN_FIELD" ->
                    IF c = "," THEN CsvScan(line, i + 1, "START_FIELD", <<>>, Append(flds, fld))
                    ELSE CsvScan(line, i + 1, "IN_FIELD", Append(fld, c), flds)
               [] state = "IN_QUOTED_FIELD" ->
                    IF c = "\"" THEN CsvScan(line, i + 1, "QUOTE_IN_QUOTED_FIELD", fld, flds)
                    ELSE CsvScan(line, i + 1, "IN_QUOTED_FIELD", Append(fld, c), flds)
               [] state = "QUOTE_IN_QUOTED_FIELD" ->
                    IF c = "\"" THEN CsvScan(line, i + 1, "IN_QUOTED_FIELD", Append(fld, c), flds)
                    ELSE IF c = "," THEN CsvScan(line, i + 1, "START_FIELD", <<>>, Append(flds, fld))
                    ELSE CsvScan(line, i + 1, "IN_FIELD", Append(fld, c), flds)

\* list(csv.reader(StringIO(line)))[0] for a non-empty line without line break
CsvRow(line) == CsvScan(line, 1, "START_FIELD", <<>>, <<>>)

\* line.split(',')
RECURSIVE Split(_)
Split(line) ==
    LET commas == {i \in 1..Len(line) : line[i] = ","}
    IN  IF commas = {} THEN <<line>>
        ELSE <<SubSeq(line, 1, Min(commas) - 1)>>
             \o Split(SubSeq(line, Min(commas) + 1, Len(line)))

-----------------------------------------------------------------------------
(* ReportFormatParsers                                                     *)

QuoteChars == {" ", "\""}

\* str.upper() of the words the model's texts use
Upper(w) ==
    CASE w \in {"Total", "total", "TOTAL"} -> "TOTAL"
      [] w \in {"Pizza", "pizza", "PIZZA"} -> "PIZZA"
      [] OTHER -> w

UpperText(s) == [i \in 1..Len(s) |-> Upper(s[i])]

HeaderLit == <<"Name", ",", "Gross", " ", "Sales", ",", "Net", " ", "Sales", ",", "Sold">>

TotalParenLit == <<"Total", " ", "(">>

Item(name, amount) == [name |-> name, gross_sales |-> amount]

\* A ledger line reader that skips only the upper-case spelling 'TOTAL'
MarathonLineMutCaseSensitive(items, rawLine) ==
    LET line == Strip(rawLine, Whitespace)
    IN  IF line = <<>> THEN items
        ELSE LET parts == CsvRow(line)
             IN  IF Len(parts) < 2 THEN items
                 ELSE LET item_name == Strip(parts[1], QuoteChars)
                          gross_sales_str == Strip(parts[2], QuoteChars)
                          r == ExtractCurrency(gross_sales_str)
                      IN  IF item_name = <<>> \/ gross_sales_str = <<>> THEN items
                          ELSE IF item_name = <<"TOTAL">> THEN items
                          ELSE IF r.raised THEN items
                          ELSE IF NumGT(r.val, Zero)
                               THEN Append(items, Item(item_name, r.val))
                          ELSE items

\* The body of the loop of _parse_marathon_items for one line: the items
\* list after the line.  Every exception is swallowed by the bare except.
MarathonLine(items, rawLine) ==
    LET line == Strip(rawLine, Whitespace)
    IN  IF line = <<>> THEN items
        ELSE LET parts == CsvRow(line)
             IN  IF Len(parts) < 2 THEN items
                 ELSE LET item_name == Strip(parts[1], QuoteChars)
                          gross_sales_str == Strip(parts[2], QuoteChars)
                          r == ExtractCurrency(gross_sales_str)
                      IN  IF item_name = <<>> \/ gross_sales_str = <<>> THEN items
                          ELSE IF UpperText(item_name) = <<"TOTAL">> THEN items
                          ELSE IF r.raised THEN items
                          ELSE IF NumGT(r.val, Zero)
                               THEN Append(items, Item(item_name, r.val))
                          ELSE items

RECURSIVE MarathonLoop(_, _, _)
MarathonLoop(lines, i, items) ==
    IF i > Len(lines) THEN items
    ELSE MarathonLoop(lines, i + 1, MarathonLine(items, lines[i]))

\* _parse_marathon_items(lines)
ParseMarathonItems(lines) ==
    LET hdr == {i \in 1..Len(lines) : Contains(lines[i], HeaderLit)}
    IN  IF hdr = {} THEN <<>>
        ELSE MarathonLoop(lines, Min(hdr) + 1, <<>>)

\* A category line reader that also keeps an amount of zero
PokeLineMutKeepsZero(items, rawLine) ==
    LET line == Strip(rawLine, Whitespace)
    IN  IF ~(StartsWith(line, TotalParenLit) /\ Contains(line, <<")">>)) THEN items
        ELSE LET parts == CsvRow(line)
             IN  IF Len(parts) < 3 THEN items
                 ELSE LET category_name == Strip(parts[1], QuoteChars)
                          gross_sales_str == Strip(parts[3], QuoteChars)
                          clean_name == SubSeq(category_name, 4, Len(category_name) - 1)
                          r == ExtractCurrency(gross_sales_str)
                      IN  IF ~(StartsWith(category_name, TotalParenLit)
                               /\ EndsWith(category_name, <<")">>)) THEN items
                          ELSE IF r.raised THEN items
                          ELSE IF NumGE(r.val, Zero)
                               THEN Append(items, Item(clean_name, r.val))
                          ELSE items

\* The body of the loop of _parse_poke_items for one line
PokeLine(items, rawLine) ==
    LET line == Strip(rawLine, Whitespace)
    IN  IF ~(StartsWith(line, TotalParenLit) /\ Contains(line, <<")">>)) THEN items
        ELSE LET parts == CsvRow(line)
             IN  IF Len(parts) < 3 THEN items
                 ELSE LET category_name == Strip(parts[1], QuoteChars)
                          gross_sales_str == Strip(parts[3], QuoteChars)
                          clean_name == SubSeq(category_name, 4, Len(category_name) - 1)
                          r == ExtractCurrency(gross_sales_str)
                      IN  IF ~(StartsWith(category_name, TotalParenLit)
                               /\ EndsWith(category_name, <<")">>)) THEN items
                          ELSE IF r.raised THEN items
                          ELSE IF NumGT(r.val, Zero)
                               THEN Append(items, Item(clean_name, r.val))
                          ELSE items

RECURSIVE PokeLoop(_, _, _)
PokeLoop(lines, i, items) ==
    IF i > Len(lines) THEN items
    ELSE PokeLoop(lines, i + 1, PokeLine(items, lines[i]))

\* _parse_poke_items(lines)
ParsePokeItems(lines) == PokeLoop(lines, 1, <<>>)

HasPizza(s) == Contains(s, <<"Pizza">>) \/ Contains(s, <<"pizza">>)

\* The body of the loop of _parse_pizza_items for one line: [raised, items].
\* No try block here: an exception of _extract_currency leaves the parser.
PizzaLine(items, rawLine) ==
    LET line == Strip(rawLine, Whitespace)
        keep == [raised |-> FALSE, items |-> items]
    IN  IF line = <<>> \/ ~StartsWith(line, <<",">>) THEN keep
        ELSE IF ~HasPizza(line) THEN keep
        ELSE LET raw   == Split(line)
                 parts == [k \in 1..Len(raw) |-> Strip(raw[k], QuoteChars)]
             IN  IF Len(parts) < 3 THEN keep
                 ELSE LET item_name == parts[2]
                          gross_sales_str == parts[3]
                          r == ExtractCurrency(gross_sales_str)
                      IN  IF item_name = <<>> \/ ~HasPizza(item_name) THEN keep
                          ELSE IF r.raised THEN [raised |-> TRUE, items |-> items]
                          ELSE IF NumGT(r.val, Zero)
                               THEN [raised |-> FALSE,
                                     items |-> Append(items, Item(item_name, r.val))]
                          ELSE keep

RECURSIVE PizzaLoop(_, _, _)
PizzaLoop(lines, i, items) ==
    IF i > Len(lines) THEN [raised |-> FALSE, items |-> items]
    ELSE LET r == PizzaLine(items, lines[i])
         IN  IF r.raised THEN r ELSE PizzaLoop(lines, i + 1, r.items)

\* _parse_pizza_items(lines): [raised, items]
ParsePizzaItems(lines) == PizzaLoop(lines, 1, <<>>)

-----------------------------------------------------------------------------
(* FormatDispatcher: _extract_top_items                                    *)

TopN == 3

MarathonLit == <<"MARATHON", " ", "LIQUORS">>

PokeLit == <<"POKE", " ", "HANA">>

AnthonyLit == <<"Anthony", "'", "s", " ", "Pizza">>

\* A dispatcher whose fall-through branch runs the keyword-row parser
SelectParserMutFallThrough(merchant_name) ==
    IF Contains(merchant_name, MarathonLit) THEN "marathon"
    ELSE IF Contains(merchant_name, PokeLit) THEN "poke"
    ELSE "pizza"

\* Which parser _extract_top_items runs for a merchant name: the if/elif
\* chain of substring tests.
SelectParser(merchant_name) ==
    IF Contains(merchant_name, MarathonLit) THEN "marathon"
    ELSE IF Contains(merchant_name, PokeLit) THEN "poke"
    ELSE IF Contains(merchant_name, AnthonyLit) \/ Contains(merchant_name, <<"Pizza">>)
         THEN "pizza"
    ELSE "none"

\* An insertion that puts x in front of the elements with an equal key
InsertDescMutTiesFirst(sorted, x) ==
    LET before == {i \in 1..Len(sorted) : NumGT(sorted[i].gross_sales, x.gross_sales)}
        k == IF before = {} THEN 0 ELSE Max(before)
    IN  SubSeq(sorted, 1, k) \o <<x>> \o SubSeq(sorted, k + 1, Len(sorted))

\* A truncation that is left out
FirstNMutNoCut(items) == items

\* One insertion of list.sort(key=gross_sales, reverse=True): x goes behind
\* every element whose key is >= its own, so equal keys keep their order.
InsertDesc(sorted, x) ==
    LET before == {i \in 1..Len(sorted) : NumGE(sorted[i].gross_sales, x.gross_sales)}
        k == IF before = {} THEN 0 ELSE Max(before)
    IN  SubSeq(sorted, 1, k) \o <<x>> \o SubSeq(sorted, k + 1, Len(sorted))

RECURSIVE SortLoop(_, _, _)
SortLoop(items, i, sorted) ==
    IF i > Len(items) THEN sorted
    ELSE SortLoop(items, i + 1, InsertDesc(sorted, items[i]))

\* items.sort(key=lambda x: x['gross_sales'], reverse=True)
SortByGrossSalesDesc(items) == SortLoop(items, 1, <<>>)

\* items[:3]
FirstN(items) == SubSeq(items, 1, IF Len(items) < TopN THEN Len(items) ELSE TopN)

\* What a parser call gives _extract_top_items: [raised, parser, items]
Parsed(which, r) == [raised |-> r.raised, parser |-> which, items |-> r.items]

\* The parser call of _extract_top_items: [raised, parser, items], the
\* candidates in extraction order, before ranking.
DispatchParser(lines, merchant_name) ==
    LET which == SelectParser(merchant_name)
    IN  CASE which = "marathon" ->
               [raised |-> FALSE, parser |-> which, items |-> ParseMarathonItems(lines)]
          [] which = "poke" ->
               [raised |-> FALSE, parser |-> which, items |-> ParsePokeItems(lines)]
          [] which = "pizza" -> Parsed(which, ParsePizzaItems(lines))
          [] OTHER -> [raised |-> FALSE, parser |-> which, items |-> <<>>]

\* The sort and the slice of _extract_top_items on what the parser gave
RankItems(parsed) ==
    IF parsed.raised THEN [raised |-> TRUE, parser |-> parsed.parser, items |-> <<>>]
    ELSE [raised |-> FALSE, parser |-> parsed.parser,
          items |-> FirstN(SortByGrossSalesDesc(parsed.items))]

\* _extract_top_items(lines, merchant_name): [raised, parser, items]
ExtractTopItems(lines, merchant_name) == RankItems(DispatchParser(lines, merchant_name))

-----------------------------------------------------------------------------
(* Python dicts: functions from key strings, a key may be absent           *)

Put(d, k, v) == [x \in (DOMAIN d) \cup {k} |-> IF x = k THEN v ELSE d[x]]

Has(d, k) == k \in DOMAIN d

\* d.get(k, default)
Get(d, k, default) == IF k \in DOMAIN d THEN d[k] ELSE default

-----------------------------------------------------------------------------
(* MerchantRecordBuilder: _process_sales_file                              *)

\* re.search(r'([^/\\]+)-Revenue', file_path): the leftmost start of a run
\* without path separators that reaches a "-Revenue", extended (greedy) to
\* the last "-Revenue" of the run; "Unknown" without a match.
MerchantNameOf(file_path) ==
    LET seps == {"/", "\\"}
        hits == {se \in (1..Len(file_path)) \X (1..Len(file_path)) :
                    /\ se[1] < se[2]
                    /\ \A k \in se[1]..(se[2] - 1) : file_path[k] \notin seps
                    /\ MatchAt(file_path, se[2], <<"-", "Revenue">>)}
        s0   == Min({se[1] : se \in hits})
        e0   == Max({se[2] : se \in {h \in hits : h[1] = s0}})
    IN  IF hits = {} THEN <<"Unknown">> ELSE SubSeq(file_path, s0, e0 - 1)

\* An assignment that `>` is written `>=`
DetermineStatusMutInclusive(last_activity, now) ==
    IF last_activity >= now - ThirtyDays THEN "Active" ELSE "Inactive"

\* 'Active' if last_activity > datetime.now() - timedelta(days=30) else 'Inactive'
DetermineStatus(last_activity, now) ==
    IF last_activity > now - ThirtyDays THEN "Active" ELSE "Inactive"

\* A marker loop that tests 'Net Sales' before 'Gross Sales'
ScanMarkerLineMutNetFirst(rec, line) ==
    LET cur == ExtractCurrency(line)
        setc(k) == [raised |-> cur.raised,
                    rec |-> IF cur.raised THEN rec ELSE Put(rec, k, cur.val)]
    IN  IF Contains(line, <<"Net", " ", "Sales">>) /\ Contains(line, <<"$">>)
        THEN setc("net_sales")
        ELSE IF Contains(line, <<"Gross", " ", "Sales">>) /\ Contains(line, <<"$">>)
        THEN setc("gross_sales")
        ELSE IF Contains(line, <<"Gross", " ", "Profit", ",">>) /\ ~Contains(line, <<"Margin">>)
        THEN setc("gross_profit")
        ELSE IF Contains(line, <<"Gross", " ", "Profit", " ", "Margin">>)
        THEN [raised |-> FALSE,
              rec |-> Put(rec, "gross_profit_margin", ExtractPercentage(line))]
        ELSE [raised |-> FALSE, rec |-> rec]

\* One turn of the summary-marker loop: [raised, rec]
ScanMarkerLine(rec, line) ==
    LET cur == ExtractCurrency(line)
        setc(k) == [raised |-> cur.raised,
                    rec |-> IF cur.raised THEN rec ELSE Put(rec, k, cur.val)]
    IN  IF Contains(line, <<"Gross", " ", "Sales">>) /\ Contains(line, <<"$">>)
        THEN setc("gross_sales")
        ELSE IF Contains(line, <<"Net", " ", "Sales">>) /\ Contains(line, <<"$">>)
        THEN setc("net_sales")
        ELSE IF Contains(line, <<"Gross", " ", "Profit", ",">>) /\ ~Contains(line, <<"Margin">>)
        THEN setc("gross_profit")
        ELSE IF Contains(line, <<"Gross", " ", "Profit", " ", "Margin">>)
        THEN [raised |-> FALSE,
              rec |-> Put(rec, "gross_profit_margin", ExtractPercentage(line))]
        ELSE [raised |-> FALSE, rec |-> rec]

RECURSIVE ScanMarkers(_, _, _)
ScanMarkers(rec, lines, i) ==
    IF i > Len(lines) THEN [raised |-> FALSE, rec |-> rec]
    ELSE LET r == ScanMarkerLine(rec, lines[i])
         IN  IF r.raised THEN r ELSE ScanMarkers(r.rec, lines, i + 1)

\* The end of the try block, on what the marker loop (scanned), the
\* dispatcher (top) and the date extractor (last_activity) gave
FinishSalesRecord(scanned, top, last_activity, now2) ==
    IF scanned.raised \/ top.raised
    THEN [raised |-> TRUE, exc |-> "ValueError", rec |-> <<>>]
    ELSE [raised |-> FALSE, exc |-> "",
          rec |-> Put(Put(Put(scanned.rec,
                      "top_selling_items", top.items),
                      "last_activity", last_activity),
                      "status", DetermineStatus(last_activity, now2))]

\* The try block of _process_sales_file: [raised, exc, rec].  now1 is the
\* clock read by _extract_date_from_range, now2 the one read for the cutoff.
BuildSalesRecord(file_path, lines, now1, now2) ==
    IF Len(lines) < 2 THEN [raised |-> TRUE, exc |-> "IndexError", rec |-> <<>>]
    ELSE FinishSalesRecord(
            ScanMarkers([merchant_name |-> MerchantNameOf(file_path),
                         date_range |-> Strip(lines[2], {"\""}),
                         file_source |-> file_path],
                        lines, 1),
            ExtractTopItems(lines, MerchantNameOf(file_path)),
            ExtractDateFromRange(Strip(lines[2], {"\""}), now1),
            now2)

-----------------------------------------------------------------------------
(* _process_customer_file on the DataFrame pd.read_csv returns             *)
(* A DataFrame is [columns, rows]: every row is a dict over the columns.   *)
(* NaN is the missing cell of a text column, NaT that of a date column.    *)

NaN == "NaN"

NaT == -1

ProfileColumns ==
    {"First Name", "Last Name", "Phone Number", "Email Address", "Address Line 1"}

\* determine_status(date_val) with cutoff_date = now - 30 days
CustomerStatus(date_val, now) ==
    IF date_val = NaT THEN "Inactive"
    ELSE IF date_val > now - ThirtyDays THEN "Active" ELSE "Inactive"

WithColumns(row, new) ==
    [c \in (DOMAIN row) \cup (DOMAIN new) |-> IF c \in DOMAIN new THEN new[c] ELSE row[c]]

\* The try block of _process_customer_file: [raised, exc, df]
BuildCustomerFrame(file_path, df, now) ==
    LET derive(row) ==
            LET has_name  == row["First Name"] # NaN \/ row["Last Name"] # NaN
                has_phone == row["Phone Number"] # NaN
                has_email == row["Email Address"] # NaN
            IN  WithColumns(row,
                    [file_source |-> file_path,
                     Status |-> CustomerStatus(row["Customer Since"], now),
                     Has_Name |-> has_name,
                     Has_Phone |-> has_phone,
                     Has_Email |-> has_email,
                     Has_Address |-> row["Address Line 1"] # NaN,
                     Profile_Complete |-> has_name /\ has_phone /\ has_email])
        unknown(row) == WithColumns(row, [file_source |-> file_path, Status |-> "Unknown"])
    IN  IF "Customer Since" \in df.columns
        THEN IF ~(ProfileColumns \subseteq df.columns)
             THEN [raised |-> TRUE, exc |-> "KeyError", df |-> df]
             ELSE [raised |-> FALSE, exc |-> "",
                   df |-> [columns |-> df.columns \cup
                               {"file_source", "Status", "Has_Name", "Has_Phone",
                                "Has_Email", "Has_Address", "Profile_Complete"},
                           rows |-> [i \in 1..Len(df.rows) |-> derive(df.rows[i])]]]
        ELSE [raised |-> FALSE, exc |-> "",
              df |-> [columns |-> df.columns \cup {"file_source", "Status"},
                      rows |-> [i \in 1..Len(df.rows) |-> unknown(df.rows[i])]]]

-----------------------------------------------------------------------------
(* _process_inventory_file and _process_business_customer_file on the      *)
(* DataFrame pd.read_excel returns.  NoNum is the NaN of a numeric column; *)
(* the numbers of the model's spreadsheets are naturals.                   *)

NoNum == -1

\* A quotient kept exact: n / d  (d = 0: the nan of a mean over nothing)
Frac(n, d) == [n |-> n, d |-> d]

RECURSIVE SumSeq(_)
SumSeq(xs) == IF xs = <<>> THEN 0 ELSE xs[1] + SumSeq(Tail(xs))

Count(rows, P(_)) == Cardinality({i \in 1..Len(rows) : P(rows[i])})

\* df[col] without the NaN cells
Present(df, col) == SelectSeq([i \in 1..Len(df.rows) |-> df.rows[i][col]],
                              LAMBDA v : v # NoNum)

UnknownMerchantName == <<"Unknown", " ", "Merchant">>

\* _map_inventory_to_merchant(file_path)
MapInventoryToMerchant(file_path) ==
    IF Contains(file_path, <<"inventory", "-", "export", "-", "v", "2">>)
    THEN MarathonLit
    ELSE IF Contains(file_path, <<"inventory", "-", "export", "-", "2">>)
    THEN PokeLit
    ELSE IF /\ Contains(file_path, <<"inventory", "-", "export">>)
            /\ ~Contains(file_path, <<"v", "2">>)
            /\ ~Contains(file_path, <<"2">>)
    THEN <<"Anthony", "'", "s", " ", "Pizza", " ", "&", " ", "Pasta">>
    ELSE UnknownMerchantName

\* The try block of _process_inventory_file: the inventory_summary dict
\* (no statement of it raises on a DataFrame of these columns)
BuildInventorySummary(file_path, df) ==
    LET n == Len(df.rows)
        has(c) == c \in df.columns
        prices == IF has("Price") THEN Present(df, "Price") ELSE <<>>
    IN  [merchant_name |-> MapInventoryToMerchant(file_path),
         file_source |-> file_path,
         total_items |-> n,
         revenue_items |->
            IF has("Non-revenue item")
            THEN Count(df.rows, LAMBDA r : r["Non-revenue item"] = "No") ELSE n,
         non_revenue_items |->
            IF has("Non-revenue item")
            THEN Count(df.rows, LAMBDA r : r["Non-revenue item"] = "Yes") ELSE 0,
         items_with_cost |->
            IF has("Cost") THEN Count(df.rows, LAMBDA r : r["Cost"] # NoNum) ELSE 0,
         hidden_items |->
            IF has("Hidden") THEN Count(df.rows, LAMBDA r : r["Hidden"] = "Yes") ELSE 0,
         avg_price |->
            IF has("Price") /\ Len(prices) > 0
            THEN Frac(SumSeq(prices), Len(prices)) ELSE Frac(0, 1),
         total_inventory_value |-> IF has("Price") THEN SumSeq(prices) ELSE 0]

FillNa0(v) == IF v = NoNum THEN 0 ELSE v

\* The k-th smallest (k from 1) of a non-empty sequence of numbers
KthSmallest(xs, k) ==
    CHOOSE x \in Range(xs) :
        /\ Cardinality({i \in 1..Len(xs) : xs[i] < x}) < k
        /\ Cardinality({i \in 1..Len(xs) : xs[i] <= x}) >= k

\* 4 * Series.quantile(0.75) with linear interpolation
Quantile75Times4(xs) ==
    LET n  == Len(xs)
        lo == (3 * (n - 1)) \div 4
        r  == (3 * (n - 1)) % 4
        a  == KthSmallest(xs, lo + 1)
        b  == IF lo + 2 <= n THEN KthSmallest(xs, lo + 2) ELSE a
    IN  4 * a + r * (b - a)

\* The try block of _process_business_customer_file: [raised, exc, df]
BuildBusinessFrame(file_path, df) ==
    LET n == Len(df.rows)
        total(row) == FillNa0(row["MTD Volume"]) + FillNa0(row["Last Month Volume"])
        totals == [i \in 1..n |-> total(df.rows[i])]
        sum == SumSeq(totals)
        derive(row) ==
            WithColumns(row,
                [file_source |-> file_path,
                 Is_Active |-> row["Account Status"] = "Live" /\ row["MTD Volume"] > 0,
                 Total_Volume |-> total(row),
                 High_Volume |-> 4 * total(row) > Quantile75Times4(totals),
                 Volume_Category |->
                    IF total(row) * n > 2 * sum THEN "High"
                    ELSE IF 2 * total(row) * n > sum THEN "Medium" ELSE "Low"])
        plain(row) == WithColumns(row, [file_source |-> file_path])
    IN  IF "Registration Date" \in df.columns
        THEN IF ~({"Account Status", "MTD Volume", "Last Month Volume"} \subseteq df.columns)
             THEN [raised |-> TRUE, exc |-> "KeyError", df |-> df]
             ELSE [raised |-> FALSE, exc |-> "",
                   df |-> [columns |-> df.columns \cup
                               {"file_source", "Is_Active", "Total_Volume",
                                "High_Volume", "Volume_Category"},
                           rows |-> [i \in 1..n |-> derive(df.rows[i])]]]
        ELSE [raised |-> FALSE, exc |-> "",
              df |-> [columns |-> df.columns \cup {"file_source"},
                      rows |-> [i \in 1..n |-> plain(df.rows[i])]]]

-----------------------------------------------------------------------------
(* EntityAggregator: generate_analytics and its helpers                    *)

\* A cross-link that rebuilds each merchant record from its name and its
\* inventory summary, losing the fields built during loading
AddInventoryToMerchantsMutRebuild(sales, inventory) ==
    LET own(merchant) ==
            SelectSeq(inventory, LAMBDA inv : inv.merchant_name = merchant["merchant_name"])
        link(merchant) ==
            [merchant_name |-> merchant["merchant_name"],
             inventory_details |->
                IF own(merchant) # <<>> THEN own(merchant)[1]
                ELSE [merchant_name |-> merchant["merchant_name"],
                      file_source |-> "No inventory file",
                      total_items |-> 0, revenue_items |-> 0, non_revenue_items |-> 0,
                      items_with_cost |-> 0, hidden_items |-> 0, avg_price |-> 0,
                      total_inventory_value |-> 0]]
    IN  IF inventory = <<>> \/ sales = <<>> THEN sales
        ELSE [i \in 1..Len(sales) |-> link(sales[i])]

\* _add_inventory_to_merchants: self.sales_data after the call
AddInventoryToMerchants(sales, inventory) ==
    LET placeholder(name) ==
            [merchant_name |-> name,
             file_source |-> "No inventory file",
             total_items |-> 0,
             revenue_items |-> 0,
             non_revenue_items |-> 0,
             items_with_cost |-> 0,
             hidden_items |-> 0,
             avg_price |-> 0,
             total_inventory_value |-> 0]
        link(merchant) ==
            LET own == SelectSeq(inventory,
                                 LAMBDA inv : inv.merchant_name = merchant["merchant_name"])
            IN  Put(merchant, "inventory_details",
                    IF own # <<>> THEN own[1] ELSE placeholder(merchant["merchant_name"]))
    IN  IF inventory = <<>> \/ sales = <<>> THEN sales
        ELSE [i \in 1..Len(sales) |-> link(sales[i])]

\* pd.concat(frames, ignore_index=True): the union of the columns, the rows
\* one after the other; a row is a dict over the columns of its own frame,
\* and its cell in any other column is NaN.
RECURSIVE ConcatRows(_)
ConcatRows(frames) ==
    IF frames = <<>> THEN <<>> ELSE frames[1].rows \o ConcatRows(Tail(frames))

Concat(frames) ==
    [columns |-> UNION {frames[i].columns : i \in 1..Len(frames)},
     rows |-> ConcatRows(frames)]

HasNaN(df, col) == \E i \in 1..Len(df.rows) : col \notin DOMAIN df.rows[i]

\* len(df[df.get(col, pd.Series([False] * len(df)))]): [raised, n].  A
\* missing column counts nothing; a boolean column with NaN cells cannot
\* be used as a mask (ValueError).
MaskCount(df, col) ==
    IF col \notin df.columns THEN [raised |-> FALSE, n |-> 0]
    ELSE IF HasNaN(df, col) THEN [raised |-> TRUE, n |-> 0]
    ELSE [raised |-> FALSE, n |-> Count(df.rows, LAMBDA r : r[col])]

\* len(df[df[col] == v]) for a text column (a NaN cell equals nothing)
EqCount(df, col, v) == Count(df.rows, LAMBDA r : col \in DOMAIN r /\ r[col] = v)

\* A customers section whose engagement_rate is the bare ratio, not the percentage
CustomersSectionMutRatio(frames, now) ==
    LET all == Concat(frames)
        n   == Len(all.rows)
        active == EqCount(all, "Status", "Active")
        flags == [c \in {"Has_Name", "Has_Phone", "Has_Email", "Has_Address",
                         "Profile_Complete"} |-> MaskCount(all, c)]
        since == SelectSeq([i \in 1..n |-> IF "Customer Since" \in DOMAIN all.rows[i]
                                            THEN all.rows[i]["Customer Since"] ELSE NaT],
                           LAMBDA v : v # NaT)
        failed(e) == [raised |-> TRUE, exc |-> e, section |-> <<>>]
    IN  IF \E c \in DOMAIN flags : flags[c].raised THEN failed("ValueError")
        ELSE IF "Customer Since" \notin all.columns THEN failed("KeyError")
        ELSE [raised |-> FALSE, exc |-> "",
              section |->
                [total_onboarded |-> n,
                 active_customers |-> active,
                 inactive_customers |-> EqCount(all, "Status", "Inactive"),
                 customers_with_names |-> flags["Has_Name"].n,
                 customers_with_phone |-> flags["Has_Phone"].n,
                 customers_with_email |-> flags["Has_Email"].n,
                 customers_with_address |-> flags["Has_Address"].n,
                 profile_complete |-> flags["Profile_Complete"].n,
                 recent_signups_30days |->
                    Cardinality({i \in 1..Len(since) : since[i] > now - ThirtyDays}),
                 date_range |->
                    [earliest |-> IF since # <<>> THEN Min(Range(since)) ELSE NaT,
                     latest |-> IF since # <<>> THEN Max(Range(since)) ELSE NaT],
                 engagement_rate |-> IF n > 0 THEN Frac(active, n) ELSE Frac(0, 1)]]

\* The `if self.customers:` branch of generate_analytics: [raised, exc, section]
CustomersSection(frames, now) ==
    LET all == Concat(frames)
        n   == Len(all.rows)
        active == EqCount(all, "Status", "Active")
        flags == [c \in {"Has_Name", "Has_Phone", "Has_Email", "Has_Address",
                         "Profile_Complete"} |-> MaskCount(all, c)]
        since == SelectSeq([i \in 1..n |-> IF "Customer Since" \in DOMAIN all.rows[i]
                                            THEN all.rows[i]["Customer Since"] ELSE NaT],
                           LAMBDA v : v # NaT)
        failed(e) == [raised |-> TRUE, exc |-> e, section |-> <<>>]
    IN  IF \E c \in DOMAIN flags : flags[c].raised THEN failed("ValueError")
        ELSE IF "Customer Since" \notin all.columns THEN failed("KeyError")
        ELSE [raised |-> FALSE, exc |-> "",
              section |->
                [total_onboarded |-> n,
                 active_customers |-> active,
                 inactive_customers |-> EqCount(all, "Status", "Inactive"),
                 customers_with_names |-> flags["Has_Name"].n,
                 customers_with_phone |-> flags["Has_Phone"].n,
                 customers_with_email |-> flags["Has_Email"].n,
                 customers_with_address |-> flags["Has_Address"].n,
                 profile_complete |-> flags["Profile_Complete"].n,
                 recent_signups_30days |->
                    Cardinality({i \in 1..Len(since) : since[i] > now - ThirtyDays}),
                 date_range |->
                    [earliest |-> IF since # <<>> THEN Min(Range(since)) ELSE NaT,
                     latest |-> IF since # <<>> THEN Max(Range(since)) ELSE NaT],
                 engagement_rate |-> IF n > 0 THEN Frac(active * 100, n) ELSE Frac(0, 1)]]

NoCustomersSection ==
    [total_onboarded |-> 0, active_customers |-> 0, inactive_customers |-> 0,
     customers_with_names |-> 0, customers_with_phone |-> 0,
     customers_with_email |-> 0, customers_with_address |-> 0,
     profile_complete |-> 0, recent_signups_30days |-> 0,
     date_range |-> [earliest |-> NaT, latest |-> NaT],
     engagement_rate |-> Frac(0, 1)]

\* A numeric column of a concatenated frame, NaN cells dropped
ColumnValues(df, col) ==
    SelectSeq([i \in 1..Len(df.rows) |-> IF col \in DOMAIN df.rows[i]
                                          THEN df.rows[i][col] ELSE NoNum],
              LAMBDA v : v # NoNum)

\* One step of DataFrame.nlargest(limit, 'Total_Volume'): the index of the
\* first row with the largest Total_Volume among the rows not yet taken
RECURSIVE NLargest(_, _, _)
NLargest(df, taken, limit) ==
    LET left == {i \in 1..Len(df.rows) :
                    /\ i \notin Range(taken)
                    /\ "Total_Volume" \in DOMAIN df.rows[i]}
        best == {i \in left : \A j \in left :
                    df.rows[i]["Total_Volume"] >= df.rows[j]["Total_Volume"]}
    IN  IF Len(taken) = limit \/ left = {} THEN taken
        ELSE NLargest(df, Append(taken, Min(best)), limit)

\* _get_top_business_customers(business_df, limit)
GetTopBusinessCustomers(df, limit) ==
    LET cell(row, col, default) ==
            IF col \notin df.columns THEN default
            ELSE IF col \in DOMAIN row THEN row[col] ELSE NaN
        entry(row) ==
            [business_name |-> cell(row, "Legal Business Name", "Unknown"),
             dba_name |-> cell(row, "DBA Name", ""),
             customer_id |-> cell(row, "Customer ID", ""),
             total_volume |-> cell(row, "Total_Volume", 0),
             mtd_volume |-> cell(row, "MTD Volume", 0),
             last_month_volume |-> cell(row, "Last Month Volume", 0),
             account_status |-> cell(row, "Account Status", "Unknown"),
             volume_category |-> cell(row, "Volume_Category", "Low")]
        top == NLargest(df, <<>>, limit)
    IN  IF "Total_Volume" \in df.columns
        THEN [k \in 1..Len(top) |-> entry(df.rows[top[k]])]
        ELSE <<>>

\* The `if self.business_customers:` branch: [raised, exc, section]
BusinessSection(frames) ==
    LET all == Concat(frames)
        n   == Len(all.rows)
        is_active == MaskCount(all, "Is_Active")
        high == MaskCount(all, "High_Volume")
        mtd == ColumnValues(all, "MTD Volume")
        category(v) == IF "Volume_Category" \in all.columns
                       THEN EqCount(all, "Volume_Category", v)
                       ELSE (IF v = "Low" THEN n ELSE 0)
    IN  IF is_active.raised \/ high.raised
        THEN [raised |-> TRUE, exc |-> "ValueError", section |-> <<>>]
        ELSE [raised |-> FALSE, exc |-> "",
              section |->
                [total_business_accounts |-> n,
                 active_accounts |-> is_active.n,
                 live_accounts |-> IF "Account Status" \in all.columns
                                   THEN EqCount(all, "Account Status", "Live") ELSE 0,
                 total_mtd_volume |-> SumSeq(mtd),
                 total_last_month_volume |-> SumSeq(ColumnValues(all, "Last Month Volume")),
                 high_volume_accounts |-> high.n,
                 avg_volume_per_account |->
                    IF "MTD Volume" \in all.columns /\ n > 0
                    THEN Frac(SumSeq(mtd), Len(mtd)) ELSE Frac(0, 1),
                 volume_categories |->
                    [high |-> category("High"), medium |-> category("Medium"),
                     low |-> category("Low")],
                 top_3_business_customers |-> GetTopBusinessCustomers(all, 3)]]

NoBusinessSection ==
    [total_business_accounts |-> 0, active_accounts |-> 0, live_accounts |-> 0,
     total_mtd_volume |-> 0, total_last_month_volume |-> 0,
     high_volume_accounts |-> 0, avg_volume_per_account |-> Frac(0, 1),
     volume_categories |-> [high |-> 0, medium |-> 0, low |-> 0],
     top_3_business_customers |-> <<>>]

\* m.get('gross_sales', 0) and the like
Amount(m, key) == Get(m, key, Zero)

InsertMerchantDesc(sorted, x) ==
    LET before == {i \in 1..Len(sorted) :
                      NumGE(Amount(sorted[i], "gross_sales"), Amount(x, "gross_sales"))}
        k == IF before = {} THEN 0 ELSE Max(before)
    IN  SubSeq(sorted, 1, k) \o <<x>> \o SubSeq(sorted, k + 1, Len(sorted))

RECURSIVE SortMerchants(_, _, _)
SortMerchants(ms, i, sorted) ==
    IF i > Len(ms) THEN sorted
    ELSE SortMerchants(ms, i + 1, InsertMerchantDesc(sorted, ms[i]))

\* A merchants section that counts every merchant as active
MerchantsSectionMutAllActive(sales) ==
    LET n == Len(sales)
        amounts(key) == [i \in 1..n |-> Amount(sales[i], key)]
        margins == SelectSeq(amounts("gross_profit_margin"), LAMBDA v : NumGT(v, Zero))
        sorted == SortMerchants(sales, 1, <<>>)
    IN  [total_merchants |-> n,
         active_merchants |-> n,
         inactive_merchants |-> Count(sales, LAMBDA m : Get(m, "status", "") = "Inactive"),
         total_gross_sales |-> NumSum(amounts("gross_sales")),
         total_net_sales |-> NumSum(amounts("net_sales")),
         average_profit_margin |-> [sum |-> NumSum(margins), n |-> Len(margins)],
         merchant_details |-> sales,
         top_3_merchants |-> SubSeq(sorted, 1, IF n < 3 THEN n ELSE 3)]

\* The `if self.sales_data:` branch of generate_analytics
MerchantsSection(sales) ==
    LET n == Len(sales)
        amounts(key) == [i \in 1..n |-> Amount(sales[i], key)]
        margins == SelectSeq(amounts("gross_profit_margin"), LAMBDA v : NumGT(v, Zero))
        sorted == SortMerchants(sales, 1, <<>>)
    IN  [total_merchants |-> n,
         active_merchants |-> Count(sales, LAMBDA m : Get(m, "status", "") = "Active"),
         inactive_merchants |-> Count(sales, LAMBDA m : Get(m, "status", "") = "Inactive"),
         total_gross_sales |-> NumSum(amounts("gross_sales")),
         total_net_sales |-> NumSum(amounts("net_sales")),
         average_profit_margin |-> [sum |-> NumSum(margins), n |-> Len(margins)],
         merchant_details |-> sales,
         top_3_merchants |-> SubSeq(sorted, 1, IF n < 3 THEN n ELSE 3)]

NoMerchantsSection ==
    [total_merchants |-> 0, active_merchants |-> 0, inactive_merchants |-> 0,
     total_gross_sales |-> Zero, total_net_sales |-> Zero,
     average_profit_margin |-> [sum |-> Zero, n |-> 1],
     merchant_details |-> <<>>, top_3_merchants |-> <<>>]

\* A forecast whose two-month total adds the two rounded months
GeneratePredictionsMutSumRounded(sales) ==
    LET S == NumSum([i \in 1..Len(sales) |-> Amount(sales[i], "gross_sales")])
        N == IF Len(sales) > 1 THEN Len(sales) ELSE 1
        D == Pow10(S.e) * N * 3
    IN  IF sales = <<>>
        THEN [next_2_months |-> <<>>,
              same_period_next_year |-> <<>>,
              methodology |-> "Linear trend extrapolation based on current data"]
        ELSE [next_2_months |->
                [month_1_forecast |-> Round2(S.m * 105, D * 100),
                 month_2_forecast |-> Round2(S.m * 105 * 105, D * 10000),
                 total_2_months |-> NumAdd(Round2(S.m * 105, D * 100),
                                           Round2(S.m * 105 * 105, D * 10000))],
              same_period_next_year |->
                [forecast |-> Round2(S.m * 115, Pow10(S.e) * 100),
                 growth_projection |-> "15.0%"],
              methodology |-> "Linear trend extrapolation based on current data"]

\* ForecastEngine: _generate_predictions.  With S = m / 10^e the total
\* gross sales and N merchants, month 1 is S/N/3 * 1.05, month 2 is month 1
\* * 1.05, next year is S * 1.15; each is rounded to two decimals.
GeneratePredictions(sales) ==
    LET S == NumSum([i \in 1..Len(sales) |-> Amount(sales[i], "gross_sales")])
        N == IF Len(sales) > 1 THEN Len(sales) ELSE 1
        D == Pow10(S.e) * N * 3
    IN  IF sales = <<>>
        THEN [next_2_months |-> <<>>,
              same_period_next_year |-> <<>>,
              methodology |-> "Linear trend extrapolation based on current data"]
        ELSE [next_2_months |->
                [month_1_forecast |-> Round2(S.m * 105, D * 100),
                 month_2_forecast |-> Round2(S.m * 105 * 105, D * 10000),
                 total_2_months |-> Round2(S.m * (10500 + 105 * 105), D * 10000)],
              same_period_next_year |->
                [forecast |-> Round2(S.m * 115, Pow10(S.e) * 100),
                 growth_projection |-> "15.0%"],
              methodology |-> "Linear trend extrapolation based on current data"]

\* _calculate_active_rate(analytics)
CalculateActiveRate(cust, merch, bus) ==
    LET total == cust.total_onboarded + merch.total_merchants + bus.total_business_accounts
        active == cust.active_customers + merch.active_merchants + bus.active_accounts
    IN  IF total = 0 THEN Zero ELSE Round2(active * 100, total)

\* The summary block and the assignment to processed_data, on the three
\* sections: [raised, exc, sales, analytics]
FinishAnalytics(sales, cust, bus, merch, now) ==
    IF cust.raised \/ bus.raised
    THEN [raised |-> TRUE, exc |-> IF cust.raised THEN cust.exc ELSE bus.exc,
          sales |-> sales, analytics |-> <<>>]
    ELSE [raised |-> FALSE, exc |-> "", sales |-> sales,
          analytics |->
            [summary |->
                [total_entities_onboarded |->
                    cust.section.total_onboarded + merch.total_merchants
                    + bus.section.total_business_accounts,
                 total_platform_volume |->
                    NumAdd(merch.total_gross_sales,
                           [m |-> bus.section.total_mtd_volume, e |-> 0]),
                 overall_active_rate |->
                    CalculateActiveRate(cust.section, merch, bus.section),
                 data_processing_date |-> now,
                 comprehensive_breakdown |->
                    [individual_customers |-> cust.section.total_onboarded,
                     merchants |-> merch.total_merchants,
                     business_customers |-> bus.section.total_business_accounts]],
             merchants |-> merch,
             customers |-> cust.section,
             business_customers |-> bus.section,
             predictions |-> GeneratePredictions(sales)]]

\* generate_analytics on self.sales_data after the cross-link
AssembleAnalytics(sales, cust, bus, now) ==
    FinishAnalytics(sales, cust, bus,
                    IF sales # <<>> THEN MerchantsSection(sales) ELSE NoMerchantsSection,
                    now)

\* generate_analytics with datetime.now() = now: [raised, exc, sales,
\* analytics], where sales is self.sales_data after the call (the cross-link
\* is made before anything can raise).
GenerateAnalyticsResult(cust_frames, sales0, inventory, bus_frames, now) ==
    AssembleAnalytics(
        AddInventoryToMerchants(sales0, inventory),
        IF cust_frames # <<>> THEN CustomersSection(cust_frames, now)
        ELSE [raised |-> FALSE, exc |-> "", section |-> NoCustomersSection],
        IF bus_frames # <<>> THEN BusinessSection(bus_frames)
        ELSE [raised |-> FALSE, exc |-> "", section |-> NoBusinessSection],
        now)

\* print_summary: does the formatting raise?  Every key it reads exists in
\* what generate_analytics builds, except the two forecasts, which
\* _generate_predictions leaves out when there is no sales data.
PrintSummaryRaises(data) ==
    \/ ~Has(data.predictions.next_2_months, "total_2_months")
    \/ ~Has(data.predictions.same_period_next_year, "forecast")

-----------------------------------------------------------------------------
(* The files of the data directory                                         *)
(* A file is [path, lines, df]: its path, what readlines() returns and     *)
(* what pandas reads from it.                                              *)

NL == "\n"

NoFrame == [columns |-> {}, rows |-> <<>>]

TextFile(path, lines) == [path |-> path, lines |-> lines, df |-> NoFrame]

TableFile(path, df) == [path |-> path, lines |-> <<>>, df |-> df]

\* The clock when main() starts: one tick before midnight of Sep 30, 2025,
\* which is 30 days after the Aug 31, 2025 of the first report below.
ClockStart == DateTicks(2025, 9, 30) - 1

AugRange ==
    <<"Aug", " ", "1", ",", " ", "2", "0", "2", "5", " ", "-", " ",
      "Aug", " ", "3", "1", ",", " ", "2", "0", "2", "5">>

JulRange ==
    <<"Jul", " ", "1", ",", " ", "2", "0", "2", "5", " ", "-", " ",
      "Jul", " ", "3", "1", ",", " ", "2", "0", "2", "5">>

TitleLine == <<"Revenue", " ", "Item", " ", "Sales", NL>>

\* An itemized-ledger report with every summary marker
MarathonReport ==
    TextFile(<<".", "/", "MARATHON", " ", "LIQUORS", "-", "Revenue", " ", "Item",
               " ", "Sales", ".", "csv">>,
             << TitleLine,
                <<"\"">> \o AugRange \o <<"\"", NL>>,
                <<"Gross", " ", "Sales", ",", "\"", "$", "1", ",", "2", "0", "0", ".", "5", "0", "\"", NL>>,
                <<"Net", " ", "Sales", ",", "$", "9", "0", "0", NL>>,
                <<"Gross", " ", "Profit", ",", "$", "3", "0", "0", NL>>,
                <<"Gross", " ", "Profit", " ", "Margin", ",", "2", "5", ".", "5", "%", NL>>,
                <<"Name", ",", "Gross", " ", "Sales", ",", "Net", " ", "Sales", ",", "Sold", NL>>,
                <<"Vodka", ",", "$", "7", "0", "0", ",", "$", "6", "0", "0", ",", "7", NL>>,
                <<"\"", "Rum", "\"", ",", "\"", "$", ",", "\"", ",", "1", NL>>,
                <<"TOTAL", ",", "$", "9", "0", "0", ",", "$", "8", "0", "0", ",", "8", NL>> >>)

\* A category-totals report of an older month, without net sales, gross
\* profit and margin lines
PokeReport ==
    TextFile(<<".", "/", "POKE", " ", "HANA", "-", "Revenue", ".", "csv">>,
             << TitleLine,
                JulRange \o <<NL>>,
                <<"Gross", " ", "Sales", ",", "$", "5", "0", "0", NL>>,
                <<"Total", " ", "(", "Bowls", ")", ",", "1", "0", ",", "$", "3", "0", "0", NL>> >>)

\* A keyword-row report without a date in its second line
PizzaReport ==
    TextFile(<<".", "/", "Anthony", "'", "s", " ", "Pizza", " ", "&", " ", "Pasta",
               "-", "Revenue", ".", "csv">>,
             << TitleLine,
                <<"All", " ", "time", NL>>,
                <<"Net", " ", "Sales", ",", "$", "8", "0", NL>>,
                <<",", "Cheese", " ", "Pizza", ",", "$", "5", "0", NL>> >>)

\* A report of one line
ShortReport ==
    TextFile(<<".", "/", "Empty", "-", "Revenue", ".", "csv">>, << TitleLine >>)

\* A report whose gross-sales line has a dollar sign followed by a comma
BrokenReport ==
    TextFile(<<".", "/", "Sales", "-", "broken", ".", "csv">>,
             << TitleLine,
                AugRange \o <<NL>>,
                <<"Gross", " ", "Sales", ",", "$", ",", NL>> >>)

NotesFile == TextFile(<<".", "/", "notes", ".", "csv">>, << <<"hello", NL>> >>)

\* Customer exports: with every column, and without a 'Customer Since' column
CustomersFull ==
    TableFile(<<".", "/", "Customer", "s", "-", "A", ".", "csv">>,
        [columns |-> {"Customer Since"} \cup ProfileColumns,
         rows |-> <<
            ("Customer Since" :> ClockStart - 10 * TicksPerDay) @@ ("First Name" :> "Ann")
              @@ ("Last Name" :> "Lee") @@ ("Phone Number" :> "555")
              @@ ("Email Address" :> "ann@x") @@ ("Address Line 1" :> NaN),
            ("Customer Since" :> NaT) @@ ("First Name" :> NaN)
              @@ ("Last Name" :> NaN) @@ ("Phone Number" :> NaN)
              @@ ("Email Address" :> "bo@x") @@ ("Address Line 1" :> "1 Main") >>])

CustomersNoSince ==
    TableFile(<<".", "/", "Customer", "s", "-", "B", ".", "csv">>,
        [columns |-> {"First Name"}, rows |-> << ("First Name" :> "Cy") >>])

SalesReports == {MarathonReport, PokeReport, PizzaReport, ShortReport, BrokenReport}

CsvCatalogue ==
    SalesReports \cup {NotesFile, CustomersFull, CustomersNoSince}

BusinessFull ==
    TableFile(<<".", "/", "customer_list", ".", "xlsx">>,
        [columns |-> {"Registration Date", "Account Status", "MTD Volume",
                      "Last Month Volume", "Legal Business Name"},
         rows |-> <<
            ("Registration Date" :> ClockStart) @@ ("Account Status" :> "Live")
              @@ ("MTD Volume" :> 100) @@ ("Last Month Volume" :> 50)
              @@ ("Legal Business Name" :> "Acme"),
            ("Registration Date" :> NaT) @@ ("Account Status" :> "Live")
              @@ ("MTD Volume" :> 0) @@ ("Last Month Volume" :> 400)
              @@ ("Legal Business Name" :> "Bolt"),
            ("Registration Date" :> NaT) @@ ("Account Status" :> "Closed")
              @@ ("MTD Volume" :> 20) @@ ("Last Month Volume" :> NoNum)
              @@ ("Legal Business Name" :> "Coil") >>])

BusinessNoDate ==
    TableFile(<<".", "/", "Customer_List", "-", "old", ".", "xlsx">>,
        [columns |-> {"Account Status", "MTD Volume"},
         rows |-> << ("Account Status" :> "Live") @@ ("MTD Volume" :> 10) >>])

InventoryV2 ==
    TableFile(<<".", "/", "inventory", "-", "export", "-", "v", "2", ".", "xlsx">>,
        [columns |-> {"Non-revenue item", "Cost", "Hidden", "Price"},
         rows |-> <<
            ("Non-revenue item" :> "No") @@ ("Cost" :> 3) @@ ("Hidden" :> "No") @@ ("Price" :> 8),
            ("Non-revenue item" :> "Yes") @@ ("Cost" :> NoNum) @@ ("Hidden" :> "Yes")
              @@ ("Price" :> NoNum) >>])

ExcelCatalogue == {BusinessFull, BusinessNoDate, InventoryV2}

\* The lists glob.glob can return: up to n of the files, in any order
Listings(catalogue, n) ==
    {fs \in BoundedSeq(catalogue, n) : \A i, j \in 1..Len(fs) : i # j => fs[i] # fs[j]}

-----------------------------------------------------------------------------
(* State of a DataRefinement object after __init__, before main() moves    *)

\* saved is what has been written to refined_data.json: nothing, or one document
NoFile == << >>

NoCall == [none |-> TRUE]

ObjectInit ==
    /\ clock = ClockStart
    /\ csv_files = <<>>
    /\ excel_files = <<>>
    /\ file = <<>>
    /\ customers = <<>>
    /\ sales_data = <<>>
    /\ inventory_data = <<>>
    /\ business_customers = <<>>
    /\ processed_data = <<>>
    /\ stdout = <<>>
    /\ saved = NoFile

ObjectUnchanged ==
    UNCHANGED <<clock, csv_files, excel_files, file, customers, sales_data, inventory_data,
                business_customers, processed_data, stdout, saved>>

-----------------------------------------------------------------------------
(* main(): load_data_files, generate_analytics, print_summary,             *)
(* save_refined_data.                                                      *)
(* pc is the statement main() is at; clock is the latest instant           *)
(* datetime.now() has returned, and a later call returns that instant or   *)
(* a later one, up to ClockEnd.                                            *)

ClockEnd == ClockStart + MaxElapsed

\* A print: the text with the values formatted into it
Line(text, arg) == [text |-> text, arg |-> arg]

Init ==
    /\ ObjectInit
    /\ pc = "main"
    /\ args = NoCall
    /\ ret = NoCall

\* main() up to the first loop of load_data_files: the two glob calls
LoadDataFiles ==
    /\ pc = "main"
    /\ csv_files' \in Listings(CsvCatalogue, MaxCsvFiles)
    /\ excel_files' \in Listings(ExcelCatalogue, MaxExcelFiles)
    /\ stdout' = stdout \o
          << Line("Starting Data Refinement Process...", <<>>),
             Line("Loading data files...", <<>>),
             Line("Found CSV files and Excel files",
                  <<ToString(Len(csv_files')), ToString(Len(excel_files'))>>) >>
    /\ pc' = "load"
    /\ UNCHANGED <<clock, file, customers, sales_data, inventory_data,
                   business_customers, processed_data, saved, args, ret>>

\* _process_customer_file(f.path)
ProcessCustomerFile(f) ==
    \E now \in clock..ClockEnd :
        \E r \in {BuildCustomerFrame(f.path, f.df, now)} :
            /\ clock' = IF "Customer Since" \in f.df.columns THEN now ELSE clock
            /\ customers' = IF r.raised THEN customers ELSE Append(customers, r.df)
            /\ stdout' = stdout \o
                  << Line("Processing customer file", f.path),
                     IF r.raised
                     THEN Line("Error in customer file processing", <<r.exc>>)
                     ELSE Line("  Loaded customers from", f.path) >>
            /\ UNCHANGED sales_data

\* A handler whose except clause keeps what the try block had built
ProcessSalesFileMutPartial(f) ==
    \E now1 \in clock..ClockEnd : \E now2 \in now1..ClockEnd :
        \E r \in {BuildSalesRecord(f.path, f.lines, now1, now2)} :
            /\ clock' = IF r.raised THEN clock ELSE now2
            /\ sales_data' = Append(sales_data,
                                    IF r.raised
                                    THEN [merchant_name |-> MerchantNameOf(f.path),
                                          file_source |-> f.path]
                                    ELSE r.rec)
            /\ stdout' = stdout \o
                  << Line("Processing sales file", f.path) >> \o
                  (IF r.raised
                   THEN << Line("Error in sales file processing", <<r.exc>>) >>
                   ELSE << >>)
            /\ UNCHANGED customers

\* _process_sales_file(f.path)
ProcessSalesFile(f) ==
    \E now1 \in clock..ClockEnd : \E now2 \in now1..ClockEnd :
        \E r \in {BuildSalesRecord(f.path, f.lines, now1, now2)} :
            /\ clock' = IF r.raised THEN clock ELSE now2
            /\ sales_data' = IF r.raised THEN sales_data ELSE Append(sales_data, r.rec)
            /\ stdout' = stdout \o
                  << Line("Processing sales file", f.path) >> \o
                  (IF r.raised
                   THEN << Line("Error in sales file processing", <<r.exc>>) >>
                   ELSE << >>)
            /\ UNCHANGED customers

\* One turn of `for file in csv_files`
LoadCsvFile ==
    /\ pc = "load"
    /\ csv_files # <<>>
    /\ LET f == Head(csv_files)
       IN  /\ file' = f.path
           /\ csv_files' = Tail(csv_files)
           /\ IF Contains(f.path, <<"Customer">>)
              THEN ProcessCustomerFile(f)
              ELSE IF Contains(f.path, <<"Revenue">>) \/ Contains(f.path, <<"Sales">>)
              THEN ProcessSalesFile(f)
              ELSE UNCHANGED <<clock, customers, sales_data, stdout>>
    /\ UNCHANGED <<pc, excel_files, inventory_data, business_customers,
                   processed_data, saved, args, ret>>

\* _process_business_customer_file(f.path)
ProcessBusinessCustomerFile(f) ==
    \E r \in {BuildBusinessFrame(f.path, f.df)} :
        /\ business_customers' =
              IF r.raised THEN business_customers ELSE Append(business_customers, r.df)
        /\ stdout' = stdout \o
              << Line("Processing business customer file", f.path),
                 IF r.raised
                 THEN Line("Error in business customer file processing", <<r.exc>>)
                 ELSE Line("  Loaded business customers", <<ToString(Len(r.df.rows))>>) >>
        /\ UNCHANGED inventory_data

\* _process_inventory_file(f.path)
ProcessInventoryFile(f) ==
    \E inventory_summary \in {BuildInventorySummary(f.path, f.df)} :
        /\ inventory_data' = Append(inventory_data, inventory_summary)
        /\ stdout' = stdout \o
              << Line("Processing inventory file", f.path),
                 Line("  Mapping to merchant", inventory_summary.merchant_name),
                 Line("  Loaded inventory items for", inventory_summary.merchant_name) >>
        /\ UNCHANGED business_customers

\* One turn of `for file in excel_files`
LoadExcelFile ==
    /\ pc = "load"
    /\ csv_files = <<>>
    /\ excel_files # <<>>
    /\ LET f == Head(excel_files)
       IN  /\ file' = f.path
           /\ excel_files' = Tail(excel_files)
           /\ IF Contains(LowerText(f.path), <<"customer_list">>)
              THEN ProcessBusinessCustomerFile(f)
              ELSE IF Contains(LowerText(f.path), <<"inventory">>)
              THEN ProcessInventoryFile(f)
              ELSE UNCHANGED <<business_customers, inventory_data, stdout>>
    /\ UNCHANGED <<pc, clock, csv_files, customers, sales_data, processed_data,
                   saved, args, ret>>

\* generate_analytics(), called by main() when both loops are over.  An
\* exception leaves main(): the traceback is printed and nothing follows.
GenerateAnalytics ==
    /\ pc = "load"
    /\ csv_files = <<>>
    /\ excel_files = <<>>
    /\ \E now \in clock..ClockEnd :
          \E r \in {GenerateAnalyticsResult(customers, sales_data, inventory_data,
                                           business_customers, now)} :
              /\ clock' = now
              /\ sales_data' = r.sales
              /\ processed_data' = IF r.raised THEN processed_data ELSE r.analytics
              /\ stdout' = stdout \o << Line("Generating analytics...", <<>>) >> \o
                    (IF r.raised THEN << Line("Traceback", <<r.exc>>) >> ELSE << >>)
              /\ pc' = IF r.raised THEN "failed" ELSE "summary"
    /\ UNCHANGED <<csv_files, excel_files, file, customers, inventory_data,
                   business_customers, saved, args, ret>>

\* print_summary()
PrintSummary ==
    /\ pc = "summary"
    /\ IF DOMAIN processed_data = {}
       THEN /\ stdout' = Append(stdout, Line("No data processed yet", <<>>))
            /\ pc' = "save"
       ELSE IF PrintSummaryRaises(processed_data)
       THEN /\ stdout' = stdout \o << Line("DATA REFINEMENT SUMMARY", <<>>),
                                      Line("Traceback", <<"KeyError">>) >>
            /\ pc' = "failed"
       ELSE /\ stdout' = Append(stdout, Line("DATA REFINEMENT SUMMARY", <<>>))
            /\ pc' = "save"
    /\ UNCHANGED <<clock, csv_files, excel_files, file, customers, sales_data,
                   inventory_data, business_customers, processed_data, saved, args, ret>>

\* save_refined_data() and the last print of main()
SaveRefinedData ==
    /\ pc = "save"
    /\ saved' = << processed_data >>
    /\ stdout' = stdout \o
          << Line("Saving refined data to", <<"refined_data.json">>),
             Line("Data saved successfully!", <<>>),
             Line("Data refinement completed successfully!", <<>>) >>
    /\ pc' = "done"
    /\ UNCHANGED <<clock, csv_files, excel_files, file, customers, sales_data,
                   inventory_data, business_customers, processed_data, args, ret>>

Next ==
    \/ LoadDataFiles
    \/ LoadCsvFile
    \/ LoadExcelFile
    \/ GenerateAnalytics
    \/ PrintSummary
    \/ SaveRefinedData

Spec == Init /\ [][Next]_vars

-----------------------------------------------------------------------------
(* _extract_currency applied to every short text                           *)

CurrencyAlphabet == {"$", ",", ".", "0", "5", "\"", "x"}

\* '"$1,234.50"' and 'no amount here'
CurrencyExamples ==
    { <<"\"", "$", "1", ",", "2", "3", "4", ".", "5", "0", "\"">>,
      <<"no", " ", "amount", " ", "here">> }

CurrencyTexts == BoundedSeq(CurrencyAlphabet, MaxTextLen) \cup CurrencyExamples

CurrencyInit ==
    /\ ObjectInit
    /\ pc = "call"
    /\ args \in {[text |-> t] : t \in CurrencyTexts}
    /\ ret = NoCall

CallExtractCurrency ==
    /\ pc = "call"
    /\ ret' = ExtractCurrency(args.text)
    /\ pc' = "returned"
    /\ UNCHANGED args
    /\ ObjectUnchanged

SpecCurrency == CurrencyInit /\ [][CallExtractCurrency]_vars

-----------------------------------------------------------------------------
(* _extract_top_items applied to every short report                        *)

HeaderLine == HeaderLit \o <<NL>>

\* Lines of the three report layouts.  The first three are read by the
\* itemized-ledger and by the category-totals parser, the last three by the
\* keyword-row parser.
LinePool ==
    { HeaderLine,
      <<"Total", " ", "(", "A", ")", ",", "$", "5", ",", "$", "5", NL>>,
      <<"Total", " ", "(", "B", ")", ",", "\"", "$", "5", "\"", ",", "\"", "$", "5", "\"", NL>>,
      <<"Total", " ", "(", "C", ")", ",", "$", "7", ",", "$", "7", NL>>,
      <<",", "Pizza", " ", "A", ",", "$", "5", NL>>,
      <<",", "B", " ", "pizza", ",", "$", "5", NL>>,
      <<",", "Pizza", " ", "C", ",", "$", "7", NL>> }

MarathonName == <<"MARATHON", " ", "LIQUORS">>

PokeName == <<"POKE", " ", "HANA">>

AnthonyName == <<"Anthony", "'", "s", " ", "Pizza", " ", "&", " ", "Pasta">>

KnownMerchants == {MarathonName, PokeName, AnthonyName}

MerchantNames ==
    KnownMerchants \cup { <<"Unknown">>, <<"Pizza", " ", "Hut">> }

TopItemsInit ==
    /\ ObjectInit
    /\ pc = "call"
    /\ args \in {[lines |-> ls, merchant_name |-> n] :
                    ls \in BoundedSeq(LinePool, MaxLines), n \in MerchantNames}
    /\ ret = NoCall

CallExtractTopItems ==
    /\ pc = "call"
    /\ ret' = ExtractTopItems(args.lines, args.merchant_name)
    /\ pc' = "returned"
    /\ UNCHANGED args
    /\ ObjectUnchanged

SpecTopItems == TopItemsInit /\ [][CallExtractTopItems]_vars

-----------------------------------------------------------------------------
(* Properties of _extract_top_items (SpecTopItems)                         *)

Candidates == DispatchParser(args.lines, args.merchant_name).items

\* candidate i ranks before candidate j: larger gross_sales, or equal
\* gross_sales and extracted earlier
RanksBefore(cand, i, j) ==
    \/ NumGT(cand[i].gross_sales, cand[j].gross_sales)
    \/ cand[i].gross_sales = cand[j].gross_sales /\ i < j

\* C1: the list _extract_top_items returns has at most 3 entries and is
\* sorted non-increasing by gross_sales, for every report and merchant name.
C1_TopItemsBoundedSorted ==
    pc = "returned" =>
        /\ ~ret.raised
        /\ Len(ret.items) <= 3
        /\ \A i, j \in 1..Len(ret.items) :
              i < j => NumGE(ret.items[i].gross_sales, ret.items[j].gross_sales)

\* C1 witness: more than three candidates, extracted out of order, came
\* back as three entries with different amounts.
C1_Witness ==
    /\ pc = "returned"
    /\ Len(Candidates) > 3
    /\ \E i, j \in 1..Len(Candidates) :
          i < j /\ NumGT(Candidates[j].gross_sales, Candidates[i].gross_sales)
    /\ Len(ret.items) = 3
    /\ NumGT(ret.items[1].gross_sales, ret.items[3].gross_sales)

\* C2: the returned list is the candidates ranked by gross_sales with ties
\* in extraction order, cut after the third: each returned entry is a
\* candidate, the entries are in rank order, and every candidate left out
\* ranks behind every entry kept (so on a tie across the cut the
\* earlier-extracted candidate is the one kept).
C2_TiesKeepExtractionOrder ==
    pc = "returned" =>
        LET cand == Candidates
            out  == ret.items
        IN  /\ Len(out) = (IF Len(cand) < 3 THEN Len(cand) ELSE 3)
            /\ \E f \in [1..Len(out) -> 1..Len(cand)] :
                  /\ \A k \in 1..Len(out) : out[k] = cand[f[k]]
                  /\ \A k, l \in 1..Len(out) : k < l => RanksBefore(cand, f[k], f[l])
                  /\ \A c \in (1..Len(cand)) \ {f[k] : k \in 1..Len(out)} :
                        \A k \in 1..Len(out) : RanksBefore(cand, f[k], c)

\* C2 witness: a tie across the cut (more candidates have the gross_sales
\* of the third entry than were returned, one of them under another name)
\* and a tie between two entries that both survive.
C2_Witness ==
    /\ pc = "returned"
    /\ Len(ret.items) = 3
    /\ ret.items[2].gross_sales = ret.items[3].gross_sales
    /\ ret.items[2].name # ret.items[3].name
    /\ Cardinality({c \in 1..Len(Candidates) :
                       Candidates[c].gross_sales = ret.items[3].gross_sales})
          > Cardinality({k \in 1..3 : ret.items[k].gross_sales = ret.items[3].gross_sales})
    /\ \E c \in 1..Len(Candidates) :
          /\ Candidates[c].gross_sales = ret.items[3].gross_sales
          /\ Candidates[c].name # ret.items[3].name

\* C3 as stated: every merchant identity other than the three known ones
\* runs no parser and gets an empty list without an exception.
C3_OtherIdentityRunsNoParser ==
    (pc = "returned" /\ args.merchant_name \notin KnownMerchants) =>
        ~ret.raised /\ ret.parser = "none" /\ ret.items = <<>>

NoDispatchLiteral(name) ==
    /\ ~Contains(name, <<"MARATHON", " ", "LIQUORS">>)
    /\ ~Contains(name, <<"POKE", " ", "HANA">>)
    /\ ~Contains(name, <<"Pizza">>)

\* C3 amended: a merchant name that contains none of the substrings
\* 'MARATHON LIQUORS', 'POKE HANA' and 'Pizza' runs no parser and gets an
\* empty list without an exception, whatever the lines contain.
C3_NoLiteralRunsNoParser ==
    (pc = "returned" /\ NoDispatchLiteral(args.merchant_name)) =>
        ~ret.raised /\ ret.parser = "none" /\ ret.items = <<>>

\* C3 witness: such a name, with lines each of the parsers would read.
C3_Witness ==
    /\ pc = "returned"
    /\ NoDispatchLiteral(args.merchant_name)
    /\ ParseMarathonItems(args.lines) # <<>>
    /\ ParsePizzaItems(args.lines).items # <<>>
    /\ ret.items = <<>>

-----------------------------------------------------------------------------
(* Properties of the run of main() (Spec)                                  *)

\* The record the last turn of the csv loop appended to sales_data
NewRecord == sales_data'[Len(sales_data')]

\* C4: a record appended by _process_sales_file has status Active or
\* Inactive, Inactive when its last_activity is exactly 30 days before the
\* cutoff's clock reading (clock'), Active when it is any later instant.
C4_StrictThirtyDayCutoff ==
    [][Len(sales_data') = Len(sales_data) + 1 =>
          /\ NewRecord["status"] \in {"Active", "Inactive"}
          /\ NewRecord["last_activity"] = clock' - ThirtyDays
                => NewRecord["status"] = "Inactive"
          /\ NewRecord["last_activity"] > clock' - ThirtyDays
                => NewRecord["status"] = "Active"
          /\ NewRecord["last_activity"] < clock' - ThirtyDays
                => NewRecord["status"] = "Inactive"]_vars

\* C4 witness: the file just processed gave a record whose last_activity is
\* exactly 30 days before the clock reading, and it is Inactive.
C4_Witness ==
    /\ pc = "load"
    /\ sales_data # <<>>
    /\ sales_data[Len(sales_data)]["file_source"] = file
    /\ sales_data[Len(sales_data)]["last_activity"] = clock - ThirtyDays
    /\ sales_data[Len(sales_data)]["status"] = "Inactive"

\* generate_analytics has returned
AnalyticsReturned == pc \in {"summary", "save", "done"}

\* C5 as stated: after generate_analytics every merchant record has an
\* inventory_details key, holding the inventory summary of the same
\* merchant_name if there is one and the zero placeholder with file_source
\* 'No inventory file' otherwise, whatever files were loaded.
C5_EveryMerchantHasInventoryDetails ==
    AnalyticsReturned =>
        \A i \in 1..Len(sales_data) :
            /\ Has(sales_data[i], "inventory_details")
            /\ LET own == SelectSeq(inventory_data,
                                    LAMBDA inv : inv.merchant_name = sales_data[i]["merchant_name"])
                   details == sales_data[i]["inventory_details"]
               IN  IF own # <<>> THEN details = own[1]
                   ELSE /\ details.file_source = "No inventory file"
                        /\ details.total_items = 0
                        /\ details.total_inventory_value = 0

\* C6 as stated: no run of main() ends in an unhandled failure before
\* save_refined_data, whatever the input files are.
C6_NoRunFails == pc # "failed"

\* The turn of the csv loop that is about to run hands a file to
\* _process_sales_file
SalesFileNext ==
    /\ pc = "load"
    /\ csv_files # <<>>
    /\ ~Contains(Head(csv_files).path, <<"Customer">>)
    /\ \/ Contains(Head(csv_files).path, <<"Revenue">>)
       \/ Contains(Head(csv_files).path, <<"Sales">>)

\* What processing that file gives when both clock readings are the
\* cutoff's (clock'); whether it raises does not depend on the clock
NextSalesResult ==
    BuildSalesRecord(Head(csv_files).path, Head(csv_files).lines, clock', clock')

\* The file is skipped (r raised) and the loop goes on with the next file;
\* a file that does not raise yields the record it yields by itself
SkippedOrWhole(r) ==
    /\ pc' = "load"
    /\ csv_files' = Tail(csv_files)
    /\ IF r.raised
       THEN sales_data' = sales_data
       ELSE \/ sales_data' = Append(sales_data, r.rec)
            \/ \E now1 \in clock..(clock' - 1) :
                  sales_data' =
                     Append(sales_data,
                            BuildSalesRecord(Head(csv_files).path, Head(csv_files).lines,
                                             now1, clock').rec)

C8_MissingColumnCountsZero ==
    (/\ pc \notin {"main", "load"}
     /\ customers # <<>>
     /\ "Customer Since" \notin Concat(customers).columns) =>
        /\ DOMAIN processed_data # {}
        /\ processed_data.customers.recent_signups_30days = 0
        /\ processed_data.customers.customers_with_names = 0
        /\ processed_data.customers.profile_complete = 0

SalesFields == {"gross_sales", "net_sales", "gross_profit", "gross_profit_margin"}

\* C9 as stated: every merchant record carries gross_sales, net_sales,
\* gross_profit and gross_profit_margin (0.0 for a marker that is absent).
C9_RecordCarriesSalesFields ==
    \A i \in 1..Len(sales_data) : SalesFields \subseteq DOMAIN sales_data[i]

-----------------------------------------------------------------------------
(* Properties of _extract_currency (SpecCurrency)                          *)

\* C10 as stated: _extract_currency never raises; it returns a number >= 0,
\* 0.0 for a text without an amount (no dollar sign, or a dollar sign
\* followed only by commas), and 1234.50 for '"$1,234.50"'.
C10_CurrencyNeverRaises ==
    pc = "returned" =>
        /\ ~ret.raised
        /\ NumGE(ret.val, Zero)
        /\ Range(args.text) \cap Digits = {} => ret.val = Zero
        /\ args.text = <<"\"", "$", "1", ",", "2", "3", "4", ".", "5", "0", "\"">>
              => ret.val = [m |-> 12345, e |-> 1]

-----------------------------------------------------------------------------
(* _generate_predictions applied to every short list of merchant records   *)
(* The records carry whole-dollar gross_sales, or none.  Python rounds the  *)
(* binary float; Round2 rounds the exact quotient, a tie going to the even  *)
(* cent, so on an exact half cent the two may differ by one cent.           *)

MaxMerchants == 3

\* '$10,000', '$7', '$2', '$1' as _extract_currency reads them
ForecastAmounts ==
    { [m |-> 10000, e |-> 0], [m |-> 7, e |-> 0], [m |-> 2, e |-> 0], [m |-> 1, e |-> 0] }

ForecastMerchants ==
    { [merchant_name |-> <<"M">>, gross_sales |-> a] : a \in ForecastAmounts }
       \cup { [merchant_name |-> <<"M">>] }

PredictionsInit ==
    /\ ObjectInit
    /\ pc = "call"
    /\ args \in {[sales |-> ms] : ms \in BoundedSeq(ForecastMerchants, MaxMerchants)}
    /\ ret = NoCall

CallGeneratePredictions ==
    /\ pc = "call"
    /\ ret' = GeneratePredictions(args.sales)
    /\ pc' = "returned"
    /\ UNCHANGED args
    /\ ObjectUnchanged

SpecPredictions == PredictionsInit /\ [][CallGeneratePredictions]_vars

-----------------------------------------------------------------------------
(* Properties of _generate_predictions (SpecPredictions)                   *)

\* The number of cents of a decimal with at most two fractional digits
Cents(x) == x.m * Pow10(2 - x.e)

Abs(n) == IF n < 0 THEN -n ELSE n

\* x is a / b cents rounded to a whole cent
IsRoundedCents(x, a, b) ==
    /\ x.e <= 2
    /\ 2 * Abs(Cents(x) * b - a) <= b

\* S in units of 10^-e and the merchant count N of the call
ForecastS == NumSum([i \in 1..Len(args.sales) |-> Get(args.sales[i], "gross_sales", Zero)])

ForecastN == Len(args.sales)

\* C11: for a non-empty merchant list with total gross sales S and N
\* merchants, month_1_forecast is S/N/3*1.05 rounded to cents,
\* month_2_forecast is S/N/3*1.05*1.05 rounded to cents, total_2_months is
\* the unrounded sum of the two rounded to cents, the next-year forecast is
\* S*1.15 rounded to cents; S = 30000 and N = 3 give 3500, 3675, 7175, 34500.
C11_ForecastFormulas ==
    (pc = "returned" /\ args.sales # <<>>) =>
        LET a == ForecastS.m
            b == Pow10(ForecastS.e) * ForecastN
            months == ret.next_2_months
        IN  /\ IsRoundedCents(months.month_1_forecast, a * 105, b * 3)
            /\ IsRoundedCents(months.month_2_forecast, a * 11025, b * 300)
            /\ IsRoundedCents(months.total_2_months, a * 21525, b * 300)
            /\ IsRoundedCents(ret.same_period_next_year.forecast, a * 115, Pow10(ForecastS.e))
            /\ (ForecastS = [m |-> 30000, e |-> 0] /\ ForecastN = 3) =>
                  /\ months.month_1_forecast = [m |-> 3500, e |-> 0]
                  /\ months.month_2_forecast = [m |-> 3675, e |-> 0]
                  /\ months.total_2_months = [m |-> 7175, e |-> 0]
                  /\ ret.same_period_next_year.forecast = [m |-> 34500, e |-> 0]

\* C11 witness: a call where the total differs from the sum of the two
\* rounded months (S = 7 over three merchants: 0.82 + 0.86 but 1.67).
C11_Witness ==
    /\ pc = "returned"
    /\ args.sales # <<>>
    /\ ForecastN = 3
    /\ Cents(ret.next_2_months.total_2_months)
          # Cents(ret.next_2_months.month_1_forecast)
            + Cents(ret.next_2_months.month_2_forecast)

-----------------------------------------------------------------------------
(* Properties of the sections built by generate_analytics (Spec)           *)

\* The strictly positive gross_profit_margin values of the merchant records
PositiveMargins ==
    SelectSeq([i \in 1..Len(sales_data) |-> Get(sales_data[i], "gross_profit_margin", Zero)],
              LAMBDA v : NumGT(v, Zero))

\* C12 as stated: average_profit_margin is the mean of gross_profit_margin
\* over exactly the merchants whose margin is strictly positive, and it is
\* 0, a defined number, when no merchant has a strictly positive margin.
C12_AverageProfitMarginDefined ==
    AnalyticsReturned =>
        LET avg == processed_data.merchants.average_profit_margin
        IN  IF PositiveMargins = <<>>
            THEN avg.n > 0 /\ avg.sum = Zero
            ELSE avg = [sum |-> NumSum(PositiveMargins), n |-> Len(PositiveMargins)]

\* The rows of all loaded customer frames and the 'Active' ones among them
CustomerRows == ConcatRows(customers)

ActiveCustomerRows == SelectSeq(CustomerRows, LAMBDA r : Get(r, "Status", "") = "Active")

\* C13: aggregating no customers gives engagement_rate 0 without a division
\* error; aggregating a non-empty customer set gives
\* active_customers / total_onboarded * 100.
C13_EngagementRate ==
    AnalyticsReturned =>
        LET section == processed_data.customers
            rate == section.engagement_rate
        IN  /\ section.total_onboarded = Len(CustomerRows)
            /\ section.active_customers = Len(ActiveCustomerRows)
            /\ rate.d # 0
            /\ IF Len(CustomerRows) = 0 THEN rate.n = 0
               ELSE rate.n * Len(CustomerRows) = Len(ActiveCustomerRows) * 100 * rate.d

\* C13 witness: analytics over customers of whom some but not all are active
C13_Witness ==
    /\ AnalyticsReturned
    /\ 0 < Len(ActiveCustomerRows)
    /\ Len(ActiveCustomerRows) < Len(CustomerRows)

\* C13 witness of the empty case: analytics with no customer loaded
C13_WitnessNoCustomers ==
    /\ AnalyticsReturned
    /\ customers = <<>>
    /\ processed_data.customers.engagement_rate = Frac(0, 1)

-----------------------------------------------------------------------------
(* _map_inventory_to_merchant applied to every short file path             *)

MaxPathLen == 6

\* The words and characters the three patterns are made of
PathAlphabet == {"inventory", "-", "export", "v", "2"}

InventoryMapInit ==
    /\ ObjectInit
    /\ pc = "call"
    /\ args \in {[file_path |-> p] : p \in BoundedSeq(PathAlphabet, MaxPathLen)}
    /\ ret = NoCall

CallMapInventoryToMerchant ==
    /\ pc = "call"
    /\ ret' = MapInventoryToMerchant(args.file_path)
    /\ pc' = "returned"
    /\ UNCHANGED args
    /\ ObjectUnchanged

SpecInventoryMap == InventoryMapInit /\ [][CallMapInventoryToMerchant]_vars

\* The three patterns, the most specific first
PatternV2 == <<"inventory", "-", "export", "-", "v", "2">>

PatternDash2 == <<"inventory", "-", "export", "-", "2">>

PatternPlain == <<"inventory", "-", "export">>

\* C14 as stated: the path resolves by the most specific of the three
\* patterns it contains ('inventory-export-v2' before 'inventory-export-2'
\* before 'inventory-export'), and 'Unknown Merchant' is returned only for
\* a path that contains none of the three.
C14_MostSpecificPatternWins ==
    pc = "returned" =>
        ret = IF Contains(args.file_path, PatternV2) THEN MarathonName
              ELSE IF Contains(args.file_path, PatternDash2) THEN PokeName
              ELSE IF Contains(args.file_path, PatternPlain) THEN AnthonyName
              ELSE UnknownMerchantName

\* A step of generate_analytics, whether it returns or raises
AnalyticsStep == pc = "load" /\ pc' \in {"summary", "failed"}

\* A merchant record without its inventory_details key
WithoutInventoryDetails(rec) ==
    [k \in (DOMAIN rec) \ {"inventory_details"} |-> rec[k]]

-----------------------------------------------------------------------------
(* The three report parsers applied to every short report of their layout  *)

\* Rows whose amount is zero or missing, one or two for each layout
LedgerZeroLine == <<"Rum", ",", "$", "0", ",", "$", "0", ",", "0", NL>>

CategoryZeroLine == <<"Total", " ", "(", "C", ")", ",", "1", ",", "$", "0", NL>>

CategoryNoAmountLine == <<"Total", " ", "(", "D", ")", ",", "1", ",", "none", NL>>

KeywordZeroLine == <<",", "Pizza", " ", "Zero", ",", "$", "0", NL>>

ZeroAmountLines ==
    {LedgerZeroLine, CategoryZeroLine, CategoryNoAmountLine, KeywordZeroLine}

\* Lines of an itemized ledger: the header, two items, a total row in lower
\* case, a zero amount, an amount _extract_currency raises on, a row with
\* no name, a blank line
LedgerPool ==
    { HeaderLine,
      <<"Vodka", ",", "$", "7", ",", "$", "6", ",", "1", NL>>,
      <<"Gin", ",", "\"", "$", "9", "\"", ",", "$", "8", ",", "2", NL>>,
      <<"total", ",", "$", "9", ",", "$", "8", ",", "3", NL>>,
      LedgerZeroLine,
      <<"\"", "Ale", "\"", ",", "\"", "$", ",", "\"", NL>>,
      <<",", "$", "5", NL>>,
      <<" ", NL>> }

\* Lines of a category-totals report: a plain and a quoted 'Total (..)'
\* field, a zero and a missing amount, another first field, an amount
\* _extract_currency raises on
CategoryPool ==
    { <<"Total", " ", "(", "A", ")", ",", "1", ",", "$", "5", NL>>,
      <<"\"", "Total", " ", "(", "B", ")", "\"", ",", "1", ",", "$", "6", NL>>,
      CategoryZeroLine,
      CategoryNoAmountLine,
      <<"Bowl", " ", "(", "E", ")", ",", "1", ",", "$", "5", NL>>,
      <<"Total", " ", "(", "F", ")", ",", "1", ",", "\"", "$", ",", "\"", NL>> }

\* Lines of a keyword-row report: the keyword in three spellings, a row
\* without it, a row with it outside the name field, a row without the
\* leading separator, a zero amount
KeywordPool ==
    { <<",", "Cheese", " ", "Pizza", ",", "$", "5", NL>>,
      <<",", "pizza", " ", "roll", ",", "$", "6", NL>>,
      <<",", "PIZZA", " ", "BOX", ",", "$", "7", NL>>,
      <<",", "Salad", ",", "$", "5", NL>>,
      <<",", "Salad", ",", "$", "5", ",", "Pizza", NL>>,
      <<"Pizza", ",", "Pizza", ",", "$", "5", NL>>,
      KeywordZeroLine }

ParserPool(parser) ==
    CASE parser = "marathon" -> LedgerPool
      [] parser = "poke" -> CategoryPool
      [] parser = "pizza" -> KeywordPool

ParsersInit ==
    /\ ObjectInit
    /\ pc = "call"
    /\ args \in UNION { {[parser |-> p, lines |-> ls] :
                            ls \in BoundedSeq(ParserPool(p), MaxLines)} :
                        p \in {"marathon", "poke", "pizza"} }
    /\ ret = NoCall

CallParseMarathonItems ==
    /\ pc = "call"
    /\ args.parser = "marathon"
    /\ ret' = [raised |-> FALSE, items |-> ParseMarathonItems(args.lines)]
    /\ pc' = "returned"
    /\ UNCHANGED args
    /\ ObjectUnchanged

CallParsePokeItems ==
    /\ pc = "call"
    /\ args.parser = "poke"
    /\ ret' = [raised |-> FALSE, items |-> ParsePokeItems(args.lines)]
    /\ pc' = "returned"
    /\ UNCHANGED args
    /\ ObjectUnchanged

CallParsePizzaItems ==
    /\ pc = "call"
    /\ args.parser = "pizza"
    /\ ret' = ParsePizzaItems(args.lines)
    /\ pc' = "returned"
    /\ UNCHANGED args
    /\ ObjectUnchanged

ParsersNext ==
    \/ CallParseMarathonItems
    \/ CallParsePokeItems
    \/ CallParsePizzaItems

SpecParsers == ParsersInit /\ [][ParsersNext]_vars

-----------------------------------------------------------------------------
(* Properties of the report parsers (SpecParsers)                          *)

Returned(parser) == pc = "returned" /\ args.parser = parser

\* The lines after the first header line; none without a header line
AfterHeader(lines) ==
    LET hdr == {i \in 1..Len(lines) : Contains(lines[i], HeaderLit)}
    IN  IF hdr = {} THEN <<>> ELSE SubSeq(lines, Min(hdr) + 1, Len(lines))

\* The fields of a line as csv.reader gives them
Fields(rawLine) == CsvRow(Strip(rawLine, Whitespace))

\* A text holds a strictly positive currency amount
HoldsPositiveAmount(text) ==
    \E r \in {ExtractCurrency(Strip(text, QuoteChars))} :
        ~r.raised /\ NumGT(r.val, Zero)

\* A non-empty line whose first field is not 'TOTAL' in any letter case and
\* whose second field holds a strictly positive amount
LedgerRowAsStated(rawLine) ==
    /\ Strip(rawLine, Whitespace) # <<>>
    /\ Len(Fields(rawLine)) >= 2
    /\ UpperText(Strip(Fields(rawLine)[1], QuoteChars)) # <<"TOTAL">>
    /\ HoldsPositiveAmount(Fields(rawLine)[2])

\* ... and whose first field is not empty either
LedgerRow(rawLine) ==
    /\ LedgerRowAsStated(rawLine)
    /\ Strip(Fields(rawLine)[1], QuoteChars) # <<>>

LedgerItem(rawLine) ==
    Item(Strip(Fields(rawLine)[1], QuoteChars),
         ExtractCurrency(Strip(Fields(rawLine)[2], QuoteChars)).val)

ItemsOf(rows, ItemOf(_)) == [k \in 1..Len(rows) |-> ItemOf(rows[k])]

\* C16 as stated: the itemized-ledger parser returns one candidate per
\* non-empty line after the header whose first field is not 'TOTAL' in any
\* letter case and whose second field holds a strictly positive amount, in
\* line order; nothing without a header line.
C16_LedgerRowsAsStated ==
    Returned("marathon") =>
        ret.items = ItemsOf(SelectSeq(AfterHeader(args.lines), LedgerRowAsStated), LedgerItem)

\* C16 amended: one candidate, in line order, per non-empty line after the
\* first header line whose first field is neither empty nor 'TOTAL' in any
\* letter case and whose second field holds a strictly positive amount; a
\* line on which the amount extraction fails is dropped and the later lines
\* are still read; nothing without a header line.
C16_LedgerRows ==
    Returned("marathon") =>
        ret.items = ItemsOf(SelectSeq(AfterHeader(args.lines), LedgerRow), LedgerItem)

\* C16 witness: a failing line and a lower-case total row are dropped, the
\* two items around them are returned in line order
C16_Witness ==
    /\ Returned("marathon")
    /\ Len(args.lines) = 4
    /\ args.lines[1] = HeaderLine
    /\ Len(Fields(args.lines[3])) >= 2
    /\ ExtractCurrency(Strip(Fields(args.lines[3])[2], QuoteChars)).raised
    /\ ret.items = << Item(<<"Gin">>, [m |-> 9, e |-> 0]), Item(<<"Vodka">>, [m |-> 7, e |-> 0]) >>

\* A line whose first field after tokenization starts with 'Total (' and
\* ends with ')' and whose third field holds a strictly positive amount
CategoryRowAsStated(rawLine) ==
    /\ Strip(rawLine, Whitespace) # <<>>
    /\ Len(Fields(rawLine)) >= 3
    /\ StartsWith(Fields(rawLine)[1], TotalParenLit)
    /\ EndsWith(Fields(rawLine)[1], <<")">>)
    /\ HoldsPositiveAmount(Fields(rawLine)[3])

CategoryItem(rawLine) ==
    Item(SubSeq(Fields(rawLine)[1], Len(TotalParenLit) + 1, Len(Fields(rawLine)[1]) - 1),
         ExtractCurrency(Strip(Fields(rawLine)[3], QuoteChars)).val)

\* C17 as stated: the category-totals parser yields a candidate for every
\* line whose first field after CSV tokenization starts with 'Total (' and
\* ends with ')', also when that field is quoted in the raw line, and whose
\* third field holds a strictly positive amount; the name is the text
\* between the parentheses, the amount that of the third field; no other
\* line yields a candidate.
C17_CategoryRowsAfterTokenization ==
    Returned("poke") =>
        ret.items = ItemsOf(SelectSeq(args.lines, CategoryRowAsStated), CategoryItem)

\* The fields of a line split on the separator, each stripped
SplitFields(rawLine) ==
    LET raw == Split(Strip(rawLine, Whitespace))
    IN  [k \in 1..Len(raw) |-> Strip(raw[k], QuoteChars)]

\* A line that starts with the separator, whose second field contains the
\* keyword in any letter case and whose third field holds a strictly
\* positive amount
KeywordRowAsStated(rawLine) ==
    /\ StartsWith(Strip(rawLine, Whitespace), <<",">>)
    /\ Len(SplitFields(rawLine)) >= 3
    /\ Contains(UpperText(SplitFields(rawLine)[2]), <<"PIZZA">>)
    /\ HoldsPositiveAmount(SplitFields(rawLine)[3])

KeywordItem(rawLine) ==
    Item(SplitFields(rawLine)[2], ExtractCurrency(SplitFields(rawLine)[3]).val)

\* C18 as stated: the keyword-row parser matches its keyword in any letter
\* case: a line that starts with the separator and whose second field
\* contains 'PIZZA', 'Pizza' or 'pizza', with a strictly positive third
\* field, yields a candidate named by the second field; a line without the
\* leading separator or without the keyword in its name field yields none.
C18_KeywordAnyLetterCase ==
    Returned("pizza") =>
        /\ ~ret.raised
        /\ ret.items = ItemsOf(SelectSeq(args.lines, KeywordRowAsStated), KeywordItem)

\* The line an item of the output was read from
IsFromLine(item, rawLine) ==
    \/ Contains(rawLine, item.name \o <<",">>)
    \/ Contains(rawLine, item.name \o <<")">>)

\* C19: every item any of the three parsers returns has gross_sales
\* strictly greater than 0, and no item comes from a row whose amount is 0
\* or absent.
C19_ItemsStrictlyPositive ==
    pc = "returned" =>
        \A k \in 1..Len(ret.items) :
            /\ NumGT(ret.items[k].gross_sales, Zero)
            /\ \A line \in ZeroAmountLines : ~IsFromLine(ret.items[k], line)

\* C19 witness: a parser has read a row with a zero or missing amount and
\* has returned the item of another row
C19_Witness ==
    /\ pc = "returned"
    /\ \E i \in 1..Len(args.lines) : args.lines[i] \in ZeroAmountLines
    /\ ret.items # <<>>
    /\ args.parser = "poke"

-----------------------------------------------------------------------------
(* _extract_date_from_range applied to every short date-range text         *)

MaxPieces == 3

\* What a date-range text is made of.  Each piece says whether it has the
\* shape 'Month Day, Year' and which date it denotes, if any: two dates, a
\* day that does not exist, a word that is no month, a year of two digits,
\* and a text without a date.
DatePieces ==
    { [text |-> <<"Aug", " ", "3", "1", ",", " ", "2", "0", "2", "5">>,
       token |-> TRUE, parses |-> TRUE, date |-> DateTicks(2025, 8, 31)],
      [text |-> <<"Jul", " ", "1", ",", " ", "2", "0", "2", "5">>,
       token |-> TRUE, parses |-> TRUE, date |-> DateTicks(2025, 7, 1)],
      [text |-> <<"Feb", " ", "3", "0", ",", " ", "2", "0", "2", "5">>,
       token |-> TRUE, parses |-> FALSE, date |-> 0],
      [text |-> <<"Foo", " ", "1", ",", " ", "2", "0", "2", "5">>,
       token |-> TRUE, parses |-> FALSE, date |-> 0],
      [text |-> <<"Aug", " ", "1", ",", " ", "2", "5">>,
       token |-> TRUE, parses |-> FALSE, date |-> 0],
      [text |-> <<"All", " ", "time">>,
       token |-> FALSE, parses |-> FALSE, date |-> 0] }

\* The pieces joined by ' - '
RECURSIVE JoinPieces(_)
JoinPieces(pieces) ==
    IF pieces = <<>> THEN <<>>
    ELSE IF Len(pieces) = 1 THEN pieces[1].text
    ELSE pieces[1].text \o <<" ", "-", " ">> \o JoinPieces(Tail(pieces))

DateRangeInit ==
    /\ ObjectInit
    /\ pc = "call"
    /\ args \in {[pieces |-> ps, date_range |-> JoinPieces(ps), now |-> t] :
                    ps \in BoundedSeq(DatePieces, MaxPieces), t \in ClockStart..ClockEnd}
    /\ ret = NoCall

CallExtractDateFromRange ==
    /\ pc = "call"
    /\ ret' = ExtractDateFromRange(args.date_range, args.now)
    /\ pc' = "returned"
    /\ UNCHANGED args
    /\ ObjectUnchanged

SpecDateRange == DateRangeInit /\ [][CallExtractDateFromRange]_vars

-----------------------------------------------------------------------------
(* Properties of _extract_date_from_range (SpecDateRange)                  *)

\* The pieces of the text that have the shape 'Month Day, Year'
DateTokens == SelectSeq(args.pieces, LAMBDA p : p.token)

\* C20: _extract_date_from_range returns the date denoted by the last
\* 'Month Day, Year' token of the text when that token parses, whatever the
\* earlier tokens are; with no such token, or a last token that does not
\* parse, it returns the current processing time; it never raises.
C20_LastDateOrNow ==
    pc = "returned" =>
        IF DateTokens # <<>> /\ DateTokens[Len(DateTokens)].parses
        THEN ret = DateTokens[Len(DateTokens)].date
        ELSE ret = args.now

\* C20 witness: the text holds two different dates and the later one is
\* returned
C20_Witness ==
    /\ pc = "returned"
    /\ Len(DateTokens) >= 2
    /\ DateTokens[1].parses
    /\ DateTokens[Len(DateTokens)].parses
    /\ DateTokens[1].date # DateTokens[Len(DateTokens)].date
    /\ ret = DateTokens[Len(DateTokens)].date

\* C20 witness of the fallback: an earlier token parses, the last one does
\* not, and the current time is returned
C20_WitnessFallback ==
    /\ pc = "returned"
    /\ Len(DateTokens) >= 2
    /\ DateTokens[1].parses
    /\ ~DateTokens[Len(DateTokens)].parses
    /\ ret = args.now

-----------------------------------------------------------------------------
(* Properties of the merchant records built by _process_sales_file (Spec)  *)

\* C21 as stated: the date_range of a merchant record is the content of the
\* report's second line with its quoting removed; it holds neither the
\* leading nor the trailing quote character of that line.
C21_DateRangeUnquoted ==
    \A i \in 1..Len(sales_data) :
        \E d \in {Strip(sales_data[i]["date_range"], Whitespace)} :
            /\ ~StartsWith(d, <<"\"">>)
            /\ ~EndsWith(d, <<"\"">>)

-----------------------------------------------------------------------------
(* Properties of the business_customers section (Spec)                     *)

\* The loaded business accounts that are 'Live' with a month-to-date
\* volume above 0
LiveAccountsWithVolume ==
    SelectSeq(ConcatRows(business_customers),
              LAMBDA r : /\ Get(r, "Account Status", "") = "Live"
                         /\ Get(r, "MTD Volume", NoNum) > 0)

\* C22 as stated: active_accounts in the business_customers section is the
\* number of loaded business accounts whose Account Status is 'Live' and
\* whose month-to-date volume is above 0, for every loaded set of accounts.
C22_ActiveAccountsAreLiveWithVolume ==
    AnalyticsReturned =>
        processed_data.business_customers.active_accounts = Len(LiveAccountsWithVolume)

-----------------------------------------------------------------------------
(* Properties of the status of merchant records (Spec)                     *)

\* The text holds no 'Month Day, Year' token, or its last one is no date
NoParseableDate(date_range) ==
    \E dates \in {FindAllDates(date_range, 1)} :
        \/ dates = <<>>
        \/ Strptime(SubSeq(date_range, dates[Len(dates)][1], dates[Len(dates)][2])).raised

\* C23: a sales report whose date range holds no parseable date token gives
\* a merchant record with status Active: its last_activity is a reading of
\* the clock during the run, which is after the 30-day cutoff.
C23_NoDateMeansActive ==
    \A i \in 1..Len(sales_data) :
        NoParseableDate(sales_data[i]["date_range"]) =>
            /\ sales_data[i]["status"] = "Active"
            /\ sales_data[i]["last_activity"] \in ClockStart..clock
            /\ sales_data[i]["last_activity"] > clock - ThirtyDays

\* C23 witness: a record whose date range is 'All time' has been built
C23_Witness ==
    \E i \in 1..Len(sales_data) :
        /\ Contains(sales_data[i]["date_range"], <<"All", " ", "time">>)
        /\ NoParseableDate(sales_data[i]["date_range"])
        /\ sales_data[i]["status"] = "Active"

-----------------------------------------------------------------------------
(* The summary-marker loop of _process_sales_file on every short report    *)

\* Report lines, each with the field the scan is to route it to ("" for
\* none) and the value to be read from it: two gross-sales lines, a
\* net-sales line, a line with both markers, a gross-profit line, a margin
\* line, a line with the gross-profit and the margin marker, a net-sales
\* line without a dollar sign.
MarkerLines ==
    { [text |-> <<"Gross", " ", "Sales", ",", "$", "5", NL>>,
       field |-> "gross_sales", value |-> [m |-> 5, e |-> 0]],
      [text |-> <<"Gross", " ", "Sales", ",", "$", "7", NL>>,
       field |-> "gross_sales", value |-> [m |-> 7, e |-> 0]],
      [text |-> <<"Net", " ", "Sales", ",", "$", "3", NL>>,
       field |-> "net_sales", value |-> [m |-> 3, e |-> 0]],
      [text |-> <<"Gross", " ", "Sales", " ", "less", " ", "Net", " ", "Sales", ",", "$", "9", NL>>,
       field |-> "gross_sales", value |-> [m |-> 9, e |-> 0]],
      [text |-> <<"Gross", " ", "Profit", ",", "$", "2", NL>>,
       field |-> "gross_profit", value |-> [m |-> 2, e |-> 0]],
      [text |-> <<"Gross", " ", "Profit", " ", "Margin", ",", "2", "5", "%", NL>>,
       field |-> "gross_profit_margin", value |-> [m |-> 25, e |-> 0]],
      [text |-> <<"Gross", " ", "Profit", ",", "$", "2", ",", "Gross", " ", "Profit", " ",
                  "Margin", ",", "3", "0", "%", NL>>,
       field |-> "gross_profit_margin", value |-> [m |-> 30, e |-> 0]],
      [text |-> <<"Net", " ", "Sales", ",", "3", NL>>,
       field |-> "", value |-> Zero] }

\* The record as it is before the loop
MarkerBaseRecord ==
    [merchant_name |-> <<"M">>, date_range |-> <<"All", " ", "time", NL>>,
     file_source |-> <<"M", "-", "Revenue", ".", "csv">>]

MarkersInit ==
    /\ ObjectInit
    /\ pc = "call"
    /\ args \in {[marked |-> ls, lines |-> [i \in 1..Len(ls) |-> ls[i].text]] :
                    ls \in BoundedSeq(MarkerLines, MaxLines)}
    /\ ret = NoCall

CallScanMarkers ==
    /\ pc = "call"
    /\ ret' = ScanMarkers(MarkerBaseRecord, args.lines, 1)
    /\ pc' = "returned"
    /\ UNCHANGED args
    /\ ObjectUnchanged

SpecMarkers == MarkersInit /\ [][CallScanMarkers]_vars

-----------------------------------------------------------------------------
(* Properties of the summary-marker loop (SpecMarkers)                     *)

SummaryFields == {"gross_sales", "net_sales", "gross_profit", "gross_profit_margin"}

\* The lines of the report that are to be routed to a field, in file order
RoutedTo(field) == SelectSeq(args.marked, LAMBDA l : l.field = field)

\* C24: the summary-marker scan routes each line to at most one of the four
\* fields, 'Gross Sales' with '$' before 'Net Sales' with '$' before
\* 'Gross Profit,' without 'Margin' before 'Gross Profit Margin'; a field
\* several lines are routed to holds the value of the last of them, a field
\* no line is routed to is not set, and nothing else in the record changes.
C24_MarkerPriorityLastWins ==
    pc = "returned" =>
        /\ ~ret.raised
        /\ DOMAIN ret.rec \subseteq (DOMAIN MarkerBaseRecord) \cup SummaryFields
        /\ \A k \in DOMAIN MarkerBaseRecord : ret.rec[k] = MarkerBaseRecord[k]
        /\ \A field \in SummaryFields :
              IF RoutedTo(field) = <<>> THEN ~Has(ret.rec, field)
              ELSE /\ Has(ret.rec, field)
                   /\ ret.rec[field] = RoutedTo(field)[Len(RoutedTo(field))].value

\* C24 witness: a line with both sales markers went to gross_sales only, and
\* gross_sales holds the value of a later gross-sales line
C24_Witness ==
    /\ pc = "returned"
    /\ Len(RoutedTo("gross_sales")) >= 2
    /\ Contains(RoutedTo("gross_sales")[1].text, <<"Net", " ", "Sales">>)
    /\ RoutedTo("gross_sales")[1].value # RoutedTo("gross_sales")[Len(RoutedTo("gross_sales"))].value
    /\ ~Has(ret.rec, "net_sales")
    /\ ret.rec["gross_sales"] = RoutedTo("gross_sales")[Len(RoutedTo("gross_sales"))].value

-----------------------------------------------------------------------------
(* Properties of the totals built by generate_analytics (Spec)             *)

\* The number of lines of the given kind printed so far
Printed(text) == Cardinality({i \in 1..Len(stdout) : stdout[i].text = text})

\* The sales files _process_sales_file was called on, less those it
\* reported an error for
SalesFilesProcessed ==
    Printed("Processing sales file") - Printed("Error in sales file processing")

\* C25: after the file loads and generate_analytics, active_merchants +
\* inactive_merchants = total_merchants = the number of sales files
\* processed without error, and summary.total_entities_onboarded is
\* total_onboarded + total_merchants + total_business_accounts.
C25_TotalsAddUp ==
    AnalyticsReturned =>
        LET merch == processed_data.merchants
        IN  /\ merch.active_merchants + merch.inactive_merchants = merch.total_merchants
            /\ merch.total_merchants = SalesFilesProcessed
            /\ processed_data.summary.total_entities_onboarded
                 = processed_data.customers.total_onboarded + merch.total_merchants
                   + processed_data.business_customers.total_business_accounts

\* C25 witness: analytics after a sales file that failed and one that gave
\* an inactive merchant, with customers loaded or not
C25_Witness ==
    /\ AnalyticsReturned
    /\ Printed("Error in sales file processing") = 1
    /\ processed_data.merchants.total_merchants = 1
    /\ processed_data.merchants.inactive_merchants = 1

=============================================================================
